---- MODULE Spec2Model ----
(***************************************************************************)
(* Meeting scheduling of the unilink API: the lead and student scheduling  *)
(* handlers (routes/LeadRoutes.js, routes/StudentRoutes.js), the counselor *)
(* meeting endpoints (routes/VisitorLogRoutes.js), the notes/status        *)
(* update, register-student and the available-slots read, over the         *)
(* counselor_meetings table; and the handlers that change what scheduling  *)
(* reads: lead update and follow-up, student update, and the assignment    *)
(* of counselors to leads and students.                                    *)
(*                                                                         *)
(* A request is a connection record that walks through the handler one     *)
(* awaited store call at a time.  Statements of one connection are         *)
(* buffered until COMMIT; every SELECT reads the committed tables (plain   *)
(* SELECT, no FOR UPDATE, read-committed view).                            *)
(***************************************************************************)
EXTENDS Integers, Sequences, FiniteSets, TLC

VARIABLES counselor_meetings, nextMeetingId, lead_counselor_assignments,
          student_counselors, leads, users, duration_default, conn,
          follow_ups, lead_changes, pool

vars == <<counselor_meetings, nextMeetingId, lead_counselor_assignments,
          student_counselors, leads, users, duration_default, conn,
          follow_ups, lead_changes, pool>>

(***************************************************************************)
(* Bounds of the model.                                                    *)
(***************************************************************************)
\* number of rows ever inserted into counselor_meetings (AUTO_INCREMENT ids)
MaxMeetings == 2

(***************************************************************************)
(* JavaScript values.  NaN and null are out-of-band integers; every        *)
(* arithmetic operator and comparison below treats them as JavaScript      *)
(* does.                                                                   *)
(***************************************************************************)
NaN == -999999
NULL == -888888

\* the string "undefined", which parseInt(undefined) parses
Undefined == <<"u", "n", "d", "e", "f", "i", "n", "e", "d">>

Digits == {"0", "1", "2", "3", "4", "5", "6", "7", "8", "9"}

DigitValue(ch) ==
    CASE ch = "0" -> 0 [] ch = "1" -> 1 [] ch = "2" -> 2 [] ch = "3" -> 3
      [] ch = "4" -> 4 [] ch = "5" -> 5 [] ch = "6" -> 6 [] ch = "7" -> 7
      [] ch = "8" -> 8 [] ch = "9" -> 9

\* a + b on numbers; null counts as 0, NaN is contagious
JsAdd(a, b) ==
    IF a = NaN \/ b = NaN THEN NaN
    ELSE (IF a = NULL THEN 0 ELSE a) + (IF b = NULL THEN 0 ELSE b)

JsMul(a, b) ==
    IF a = NaN \/ b = NaN THEN NaN
    ELSE (IF a = NULL THEN 0 ELSE a) * (IF b = NULL THEN 0 ELSE b)

\* a < b, a <= b, a > b, a >= b: false as soon as one side is NaN
JsLt(a, b) == a # NaN /\ b # NaN /\ a < b
JsLe(a, b) == a # NaN /\ b # NaN /\ a <= b
JsGt(a, b) == JsLt(b, a)
JsGe(a, b) == JsLe(b, a)

\* String.prototype.split(':') on a string given as a tuple of characters
RECURSIVE SplitFrom(_, _, _)
SplitFrom(s, i, piece) ==
    IF i > Len(s) THEN <<piece>>
    ELSE IF s[i] = ":" THEN <<piece>> \o SplitFrom(s, i + 1, <<>>)
    ELSE SplitFrom(s, i + 1, Append(piece, s[i]))

Split(s) == SplitFrom(s, 1, <<>>)

\* const [a, b] = parts: a missing element is undefined
Destructure(parts, i) == IF i <= Len(parts) THEN parts[i] ELSE Undefined

\* parseInt(s): the longest prefix of decimal digits, NaN when there is none
RECURSIVE ParseDigits(_, _, _)
ParseDigits(s, i, acc) ==
    IF i > Len(s) \/ s[i] \notin Digits THEN acc
    ELSE ParseDigits(s, i + 1, acc * 10 + DigitValue(s[i]))

ParseInt(s) ==
    IF Len(s) = 0 \/ s[1] \notin Digits THEN NaN ELSE ParseDigits(s, 1, 0)

\* parseInt(n) of an integer number n: its decimal string parsed back
ParseIntNumber(n) == IF n = NULL THEN NaN ELSE n

\* const [hours, minutes] = t.split(':'); parseInt(hours) * 60 + parseInt(minutes)
TimeToMinutes(t) ==
    LET parts == Split(t)
    IN JsAdd(JsMul(ParseInt(Destructure(parts, 1)), 60),
             ParseInt(Destructure(parts, 2)))

(***************************************************************************)
(* Request inputs.  Times are strings, written as tuples of characters.    *)
(***************************************************************************)
T0830 == <<"0", "8", ":", "3", "0">>
T0900 == <<"0", "9", ":", "0", "0">>
T0915 == <<"0", "9", ":", "1", "5">>
T1645 == <<"1", "6", ":", "4", "5">>
\* a meetingTime without a colon: minutes is undefined
TNoColon == <<"9">>

WellFormedTimes == {T0830, T0900, T0915, T1645}
Times == WellFormedTimes \cup {TNoColon}
Durations == {-30, 15, 30, 480, 600}
D1 == "2024-06-01"

\* req.body of the two scheduling endpoints (notes is carried nowhere the
\* scheduling logic reads and is left out of the rows)
Body(c, d, t, m) ==
    [counselorId |-> c, meetingDate |-> d, meetingTime |-> t, durationMinutes |-> m]

AssignedBodies == {Body(1, D1, t, m) : t \in Times, m \in Durations}
UnassignedBodies == {Body(2, D1, t, m) : t \in {T0830, T0900}, m \in {30, 600}}
MissingBodies ==
    { Body(NULL, D1, T0830, 600), Body(2, "", T0830, 600),
      Body(2, D1, <<>>, 600), Body(2, D1, T0830, NULL), Body(1, D1, T0900, 0) }
ScheduleBodies == AssignedBodies \cup UnassignedBodies \cup MissingBodies

LeadRequests == {<<1, b>> : b \in ScheduleBodies}
StudentRequests ==
    {<<1, b>> : b \in ScheduleBodies}
        \cup {<<2, b>> : b \in {Body(1, D1, T0900, 30), Body(1, D1, T0830, 600)}}

(***************************************************************************)
(* Connections: one record per request in flight.                          *)
(***************************************************************************)
NoRes ==
    [status |-> 0, message |-> "", m_time |-> <<>>, m_dur |-> NULL, slots |-> <<>>,
     followUpNumber |-> NULL]
NoBody == Body(NULL, "", <<>>, NULL)

Idle ==
    [pc |-> "idle", op |-> "none", id |-> NULL, req |-> NoBody,
     subject_name |-> "", subject_sid |-> <<>>, pending |-> {}, res |-> NoRes,
     ends |-> 0, commits |-> 0, releases |-> 0, next_id |-> NULL,
     body |-> <<>>, old |-> <<>>, follow_up |-> {}, changes |-> {}, lead_update |-> <<>>]

InFlight(c) == c.pc \notin {"idle", "done"}
NoneInFlight == \A q \in DOMAIN conn : ~InFlight(conn[q])

\* connection.rollback(): what the connection had buffered is gone and its
\* transaction is over
Rollback(c) ==
    [c EXCEPT !.pending = {}, !.follow_up = {}, !.changes = {}, !.lead_update = <<>>,
              !.ends = @ + 1]

\* connection.commit(): the transaction is over (the handler's action puts
\* the buffered rows into the tables)
Commit(c) ==
    [c EXCEPT !.ends = @ + 1, !.commits = @ + 1]

\* the connection goes back to the pool without a release
RespondNoRelease(c, s, msg) ==
    [c EXCEPT !.pc = "done", !.pending = {}, !.follow_up = {}, !.changes = {},
              !.lead_update = <<>>,
              !.res = [NoRes EXCEPT !.status = s, !.message = msg]]

\* res.status(s).json({success, message}), after which finally releases the
\* connection; whatever the connection still had buffered is gone with it
Respond(c, s, msg) ==
    [c EXCEPT !.pc = "done", !.pending = {}, !.follow_up = {}, !.changes = {},
              !.lead_update = <<>>, !.releases = @ + 1,
              !.res = [NoRes EXCEPT !.status = s, !.message = msg]]

\* the 409 answer, whose message quotes the colliding row
RespondConflict(c, m) ==
    [c EXCEPT !.pc = "done", !.pending = {}, !.releases = @ + 1,
              !.res = [NoRes EXCEPT !.status = 409, !.message = "conflicts",
                                    !.m_time = m.meeting_time,
                                    !.m_dur = m.duration_minutes]]

\* mysql.createPool({connectionLimit: 10, waitForConnections: true})
connectionLimit == 10

\* pool.getConnection(): n connections leave the pool; a request waits while
\* the pool has none
Acquire(n) ==
    /\ pool >= n
    /\ pool' = pool - n

\* finally { connection.release() }: the connection of a request that has
\* released in this step is back in the pool
Release(p) ==
    pool' = pool + (conn'[p].releases - conn[p].releases)

\* !x of JavaScript: a missing or zero number, a missing or empty string
FalsyNumber(x) == x = NULL \/ x = 0
FalsyString(x) == x = ""
FalsyChars(x) == x = <<>>

\* !counselorId || !meetingDate || !meetingTime || !durationMinutes
MissingField(b) ==
    \/ FalsyNumber(b.counselorId)
    \/ FalsyString(b.meetingDate)
    \/ FalsyChars(b.meetingTime)
    \/ FalsyNumber(b.durationMinutes)

(***************************************************************************)
(* Rows of counselor_meetings.                                             *)
(***************************************************************************)
Row(id, c, lead, user, name, sid, d, t, m) ==
    [id |-> id, counselor_id |-> c, lead_id |-> lead, user_id |-> user,
     student_name |-> name, student_id |-> sid, meeting_date |-> d,
     meeting_time |-> t, duration_minutes |-> m, status |-> "Scheduled"]

\* the same query without its status condition
MeetingsOfAnyStatus(c, d) ==
    {m \in counselor_meetings : m.counselor_id = c /\ m.meeting_date = d}

\* SELECT ... WHERE counselor_id = ? AND meeting_date = ? AND status != 'Cancelled'
ActiveMeetings(c, d) ==
    {m \in counselor_meetings :
        m.counselor_id = c /\ m.meeting_date = d /\ m.status # "Cancelled"}

\* mStart and mEnd of a stored row
MStart(m) == TimeToMinutes(m.meeting_time)
MEnd(m) == JsAdd(MStart(m), m.duration_minutes)

\* startMinutes and endMinutes of a request
StartMinutes(b) == TimeToMinutes(b.meetingTime)
EndMinutes(b) == JsAdd(StartMinutes(b), ParseIntNumber(b.durationMinutes))

\* startMinutes < 540 || endMinutes > 1020
BusinessStart == 540
BusinessEnd == 1020
MinDuration == 15
MaxDuration == 480

(***************************************************************************)
(* POST /leads/:leadId/meetings                                            *)
(***************************************************************************)
LeadDurationOutOfRange(b) ==
    b.durationMinutes < MinDuration \/ b.durationMinutes > MaxDuration

LeadOutsideHours(b) ==
    JsLt(StartMinutes(b), BusinessStart) \/ JsGt(EndMinutes(b), BusinessEnd)

\* the test without its third clause (a new interval that contains a booked one)
LeadOverlapsNoContainment(b, m) ==
    \/ JsGe(StartMinutes(b), MStart(m)) /\ JsLt(StartMinutes(b), MEnd(m))
    \/ JsGt(EndMinutes(b), MStart(m)) /\ JsLe(EndMinutes(b), MEnd(m))

\* the three-clause test of the loop over the rows of the conflict query
LeadOverlaps(b, m) ==
    \/ JsGe(StartMinutes(b), MStart(m)) /\ JsLt(StartMinutes(b), MEnd(m))
    \/ JsGt(EndMinutes(b), MStart(m)) /\ JsLe(EndMinutes(b), MEnd(m))
    \/ JsLe(StartMinutes(b), MStart(m)) /\ JsGe(EndMinutes(b), MEnd(m))

\* the rows of the conflict query come in no stated order (the SELECT has no
\* ORDER BY): every sequence that holds each row of S once
Orderings(S) ==
    {f \in [1..Cardinality(S) -> S] :
        \A i, j \in 1..Cardinality(S) : i # j => f[i] # f[j]}

\* for (const meeting of conflicts): the index of the first row the test
\* flags, from row i on; 0 when the loop runs to its end
RECURSIVE LeadFirstConflictFrom(_, _, _)
LeadFirstConflictFrom(rows, b, i) ==
    IF i > Len(rows) THEN 0
    ELSE IF LeadOverlaps(b, rows[i]) THEN i
    ELSE LeadFirstConflictFrom(rows, b, i + 1)

\* the loop finding no conflict, whatever the rows of the query
LeadFirstConflictSkipped(rows, b) ==
    0

\* a loop that looks at the first row only
LeadFirstConflictFirstRowOnly(rows, b) ==
    IF Len(rows) >= 1 /\ LeadOverlaps(b, rows[1]) THEN 1 ELSE 0

LeadFirstConflict(rows, b) ==
    LeadFirstConflictFrom(rows, b, 1)

\* the row of the INSERT: lead_id set, user_id left NULL, student_id 'LEAD-<id>'
LeadRow(c) ==
    Row(nextMeetingId, c.req.counselorId, c.id, NULL, c.subject_name,
        <<"LEAD-", c.id>>, c.req.meetingDate, c.req.meetingTime,
        c.req.durationMinutes)

\* pool.getConnection(); the request is accepted by the router
LeadStart(p, r, sequential) ==
    /\ ~InFlight(conn[p])
    /\ sequential => NoneInFlight
    /\ conn' = [conn EXCEPT ![p] =
                   [Idle EXCEPT !.pc = "begin", !.op = "lead_meeting",
                                !.id = r[1], !.req = r[2]]]
    /\ UNCHANGED <<counselor_meetings, nextMeetingId, lead_counselor_assignments,
                   student_counselors, leads, users, duration_default,
                   follow_ups, lead_changes>>
    /\ Acquire(1)

\* beginTransaction, then the presence check and the duration check
LeadBegin(p) ==
    /\ conn[p].pc = "begin" /\ conn[p].op = "lead_meeting"
    /\ conn' = [conn EXCEPT ![p] =
                   IF MissingField(conn[p].req)
                   THEN Respond(Rollback(conn[p]), 400, "All required fields must be provided")
                   ELSE IF LeadDurationOutOfRange(conn[p].req)
                   THEN Respond(Rollback(conn[p]), 400, "Duration must be between 15 minutes and 8 hours")
                   ELSE [conn[p] EXCEPT !.pc = "assignment"]]
    /\ UNCHANGED <<counselor_meetings, nextMeetingId, lead_counselor_assignments,
                   student_counselors, leads, users, duration_default,
                   follow_ups, lead_changes>>
    /\ Release(p)

\* SELECT id FROM lead_counselor_assignments WHERE lead_id = ? AND counselor_id = ?
LeadAssignment(p) ==
    /\ conn[p].pc = "assignment" /\ conn[p].op = "lead_meeting"
    /\ conn' = [conn EXCEPT ![p] =
                   IF <<conn[p].id, conn[p].req.counselorId>> \notin lead_counselor_assignments
                   THEN Respond(Rollback(conn[p]), 400, "This counselor is not assigned to this lead")
                   ELSE [conn[p] EXCEPT !.pc = "subject"]]
    /\ UNCHANGED <<counselor_meetings, nextMeetingId, lead_counselor_assignments,
                   student_counselors, leads, users, duration_default,
                   follow_ups, lead_changes>>
    /\ Release(p)

\* SELECT full_name FROM leads WHERE id = ?, then the business-hours check
LeadSubject(p) ==
    /\ conn[p].pc = "subject" /\ conn[p].op = "lead_meeting"
    /\ conn' = [conn EXCEPT ![p] =
                   IF conn[p].id \notin DOMAIN leads
                   THEN Respond(Rollback(conn[p]), 404, "Lead not found")
                   ELSE IF LeadOutsideHours(conn[p].req)
                   THEN Respond(Rollback(conn[p]), 400, "Meetings must be scheduled between 9:00 AM and 5:00 PM")
                   ELSE [conn[p] EXCEPT !.pc = "conflicts",
                                        !.subject_name = leads[conn[p].id].full_name]]
    /\ UNCHANGED <<counselor_meetings, nextMeetingId, lead_counselor_assignments,
                   student_counselors, leads, users, duration_default,
                   follow_ups, lead_changes>>
    /\ Release(p)

\* the conflict query and the loop over its rows, which come in no stated
\* order: the row reported is the first colliding one of some order
LeadConflicts(p) ==
    /\ conn[p].pc = "conflicts" /\ conn[p].op = "lead_meeting"
    /\ \E rows \in Orderings(ActiveMeetings(conn[p].req.counselorId,
                                            conn[p].req.meetingDate)) :
           LET i == LeadFirstConflict(rows, conn[p].req)
           IN conn' = [conn EXCEPT ![p] =
                          IF i = 0 THEN [conn[p] EXCEPT !.pc = "insert"]
                          ELSE RespondConflict(Rollback(conn[p]), rows[i])]
    /\ UNCHANGED <<counselor_meetings, nextMeetingId, lead_counselor_assignments,
                   student_counselors, leads, users, duration_default,
                   follow_ups, lead_changes>>
    /\ Release(p)

\* INSERT INTO counselor_meetings ..., buffered by the connection until COMMIT
LeadInsert(p) ==
    /\ conn[p].pc = "insert" /\ conn[p].op = "lead_meeting"
    /\ nextMeetingId <= MaxMeetings
    /\ conn' = [conn EXCEPT ![p].pc = "commit", ![p].pending = {LeadRow(conn[p])}]
    /\ nextMeetingId' = nextMeetingId + 1
    /\ UNCHANGED <<counselor_meetings, lead_counselor_assignments,
                   student_counselors, leads, users, duration_default,
                   follow_ups, lead_changes>>
    /\ Release(p)

\* connection.commit(), then res.status(201)
LeadCommit(p) ==
    /\ conn[p].pc = "commit" /\ conn[p].op = "lead_meeting"
    /\ counselor_meetings' = counselor_meetings \cup conn[p].pending
    /\ conn' = [conn EXCEPT ![p] = Respond(Commit(conn[p]), 201, "Meeting scheduled successfully")]
    /\ UNCHANGED <<nextMeetingId, lead_counselor_assignments,
                   student_counselors, leads, users, duration_default,
                   follow_ups, lead_changes>>
    /\ Release(p)

(***************************************************************************)
(* POST /students/:studentId/meetings                                      *)
(***************************************************************************)
StudentOutsideHours(b) ==
    JsLt(StartMinutes(b), BusinessStart) \/ JsGt(EndMinutes(b), BusinessEnd)

StudentOverlaps(b, m) ==
    \/ JsGe(StartMinutes(b), MStart(m)) /\ JsLt(StartMinutes(b), MEnd(m))
    \/ JsGt(EndMinutes(b), MStart(m)) /\ JsLe(EndMinutes(b), MEnd(m))
    \/ JsLe(StartMinutes(b), MStart(m)) /\ JsGe(EndMinutes(b), MEnd(m))

RECURSIVE StudentFirstConflictFrom(_, _, _)
StudentFirstConflictFrom(rows, b, i) ==
    IF i > Len(rows) THEN 0
    ELSE IF StudentOverlaps(b, rows[i]) THEN i
    ELSE StudentFirstConflictFrom(rows, b, i + 1)

StudentFirstConflict(rows, b) ==
    StudentFirstConflictFrom(rows, b, 1)

\* SELECT name, student_id FROM users WHERE id = ? AND role = 'client'
ClientUsers(id) == {u \in users : u.id = id /\ u.role = "client"}

\* the row of the INSERT: user_id set, lead_id left NULL
StudentRow(c) ==
    Row(nextMeetingId, c.req.counselorId, NULL, c.id, c.subject_name,
        c.subject_sid, c.req.meetingDate, c.req.meetingTime,
        c.req.durationMinutes)

StudentStart(p, r, sequential) ==
    /\ ~InFlight(conn[p])
    /\ sequential => NoneInFlight
    /\ conn' = [conn EXCEPT ![p] =
                   [Idle EXCEPT !.pc = "begin", !.op = "student_meeting",
                                !.id = r[1], !.req = r[2]]]
    /\ UNCHANGED <<counselor_meetings, nextMeetingId, lead_counselor_assignments,
                   student_counselors, leads, users, duration_default,
                   follow_ups, lead_changes>>
    /\ Acquire(1)

\* beginTransaction, then the presence check (this handler has no duration check)
StudentBegin(p) ==
    /\ conn[p].pc = "begin" /\ conn[p].op = "student_meeting"
    /\ conn' = [conn EXCEPT ![p] =
                   IF MissingField(conn[p].req)
                   THEN Respond(Rollback(conn[p]), 400, "All required fields must be provided")
                   ELSE [conn[p] EXCEPT !.pc = "assignment"]]
    /\ UNCHANGED <<counselor_meetings, nextMeetingId, lead_counselor_assignments,
                   student_counselors, leads, users, duration_default,
                   follow_ups, lead_changes>>
    /\ Release(p)

\* SELECT id FROM student_counselors WHERE user_id = ? AND counselor_id = ?
StudentAssignment(p) ==
    /\ conn[p].pc = "assignment" /\ conn[p].op = "student_meeting"
    /\ conn' = [conn EXCEPT ![p] =
                   IF <<conn[p].id, conn[p].req.counselorId>> \notin student_counselors
                   THEN Respond(Rollback(conn[p]), 400, "This counselor is not assigned to this student")
                   ELSE [conn[p] EXCEPT !.pc = "subject"]]
    /\ UNCHANGED <<counselor_meetings, nextMeetingId, lead_counselor_assignments,
                   student_counselors, leads, users, duration_default,
                   follow_ups, lead_changes>>
    /\ Release(p)

\* the student query, then the business-hours check
StudentSubject(p) ==
    /\ conn[p].pc = "subject" /\ conn[p].op = "student_meeting"
    /\ conn' = [conn EXCEPT ![p] =
                   IF ClientUsers(conn[p].id) = {}
                   THEN Respond(Rollback(conn[p]), 404, "Student not found")
                   ELSE IF StudentOutsideHours(conn[p].req)
                   THEN Respond(Rollback(conn[p]), 400, "Meetings must be scheduled between 9:00 AM and 5:00 PM")
                   ELSE LET u == CHOOSE u \in ClientUsers(conn[p].id) : TRUE
                        IN [conn[p] EXCEPT !.pc = "conflicts",
                                           !.subject_name = u.name,
                                           !.subject_sid = u.student_id]]
    /\ UNCHANGED <<counselor_meetings, nextMeetingId, lead_counselor_assignments,
                   student_counselors, leads, users, duration_default,
                   follow_ups, lead_changes>>
    /\ Release(p)

StudentConflicts(p) ==
    /\ conn[p].pc = "conflicts" /\ conn[p].op = "student_meeting"
    /\ \E rows \in Orderings(ActiveMeetings(conn[p].req.counselorId,
                                            conn[p].req.meetingDate)) :
           LET i == StudentFirstConflict(rows, conn[p].req)
           IN conn' = [conn EXCEPT ![p] =
                          IF i = 0 THEN [conn[p] EXCEPT !.pc = "insert"]
                          ELSE RespondConflict(Rollback(conn[p]), rows[i])]
    /\ UNCHANGED <<counselor_meetings, nextMeetingId, lead_counselor_assignments,
                   student_counselors, leads, users, duration_default,
                   follow_ups, lead_changes>>
    /\ Release(p)

StudentInsert(p) ==
    /\ conn[p].pc = "insert" /\ conn[p].op = "student_meeting"
    /\ nextMeetingId <= MaxMeetings
    /\ conn' = [conn EXCEPT ![p].pc = "commit", ![p].pending = {StudentRow(conn[p])}]
    /\ nextMeetingId' = nextMeetingId + 1
    /\ UNCHANGED <<counselor_meetings, lead_counselor_assignments,
                   student_counselors, leads, users, duration_default,
                   follow_ups, lead_changes>>
    /\ Release(p)

StudentCommit(p) ==
    /\ conn[p].pc = "commit" /\ conn[p].op = "student_meeting"
    /\ counselor_meetings' = counselor_meetings \cup conn[p].pending
    /\ conn' = [conn EXCEPT ![p] = Respond(Commit(conn[p]), 201, "Meeting scheduled successfully")]
    /\ UNCHANGED <<nextMeetingId, lead_counselor_assignments,
                   student_counselors, leads, users, duration_default,
                   follow_ups, lead_changes>>
    /\ Release(p)

(***************************************************************************)
(* A store call of a scheduling request throws: the catch block rolls the  *)
(* transaction back and answers 500.                                       *)
(***************************************************************************)
StoreSteps == {"begin", "assignment", "subject", "conflicts", "insert", "commit"}

\* a catch block that answers 500 without the rollback: the buffered INSERT
\* reaches the table
ScheduleCatchNoRollback(p) ==
    /\ conn[p].op \in {"lead_meeting", "student_meeting"}
    /\ conn[p].pc \in StoreSteps
    /\ counselor_meetings' = counselor_meetings \cup conn[p].pending
    /\ conn' = [conn EXCEPT ![p] =
                   Respond(conn[p], 500, "An error occurred while scheduling the meeting")]
    /\ UNCHANGED <<nextMeetingId, lead_counselor_assignments,
                   student_counselors, leads, users, duration_default,
                   follow_ups, lead_changes>>
    /\ Release(p)

ScheduleCatch(p) ==
    /\ conn[p].op \in {"lead_meeting", "student_meeting"}
    /\ conn[p].pc \in StoreSteps
    /\ conn' = [conn EXCEPT ![p] =
                   Respond(Rollback(conn[p]), 500, "An error occurred while scheduling the meeting")]
    /\ UNCHANGED <<counselor_meetings, nextMeetingId, lead_counselor_assignments,
                   student_counselors, leads, users, duration_default,
                   follow_ups, lead_changes>>
    /\ Release(p)

(***************************************************************************)
(* Initial tables: lead 1 and student 1 (a client user), each assigned to  *)
(* counselor 1; user 2 is not a client but has an assignment row (the      *)
(* student assign-counselor route checks no role); counselor 2 is assigned *)
(* to nobody.  No meeting is stored.                                       *)
(***************************************************************************)
InitTables ==
    /\ follow_ups = [rows |-> <<>>, auto_increment |-> 1]
    /\ lead_changes = {}
    /\ pool = connectionLimit
    /\ counselor_meetings = {}
    /\ nextMeetingId = 1
    /\ lead_counselor_assignments = {<<1, 1>>}
    /\ student_counselors = {<<1, 1>>, <<2, 1>>}
    /\ leads = [i \in {1} |->
                   [full_name |-> "Ann", email |-> "ann@x.io", phone |-> "03001234567",
                    address |-> "1 Main Street", interest |-> "IT", comments |-> "",
                    is_registered |-> FALSE, is_follow_up |-> FALSE, status |-> "New"]]
    /\ users = { [id |-> 1, name |-> "Bob", email |-> "bob@x.io", role |-> "client",
                  student_id |-> <<"STU", 1>>],
                 [id |-> 2, name |-> "Eve", email |-> "eve@x.io", role |-> "admin",
                  student_id |-> <<>>] }

ScheduleStep(p) ==
    \/ LeadBegin(p) \/ LeadAssignment(p) \/ LeadSubject(p)
    \/ LeadConflicts(p) \/ LeadInsert(p) \/ LeadCommit(p)
    \/ StudentBegin(p) \/ StudentAssignment(p) \/ StudentSubject(p)
    \/ StudentConflicts(p) \/ StudentInsert(p) \/ StudentCommit(p)
    \/ ScheduleCatch(p)

(***************************************************************************)
(* The other handlers that write or read counselor_meetings.  Each is one  *)
(* step: the handler from getConnection to its response.                   *)
(***************************************************************************)
\* the counselors table; no operation modelled here changes it
Counselors == {1, 2}

UnchangedButMeetings ==
    UNCHANGED <<lead_counselor_assignments, student_counselors, leads, users,
                duration_default, follow_ups, lead_changes, pool>>

\* a finished request of handler op with path parameter id and the given answer
Finished(op, id, b, res) ==
    [Idle EXCEPT !.pc = "done", !.op = op, !.id = id, !.req = b, !.res = res]

Answer(s, msg) == [NoRes EXCEPT !.status = s, !.message = msg]

\* POST /counselors/:counselorId/meetings: no duration in the body or in the
\* INSERT (the column takes its default), no business-hours or overlap check
CounselorMeeting(p, c, name, sid, d, t) ==
    /\ NoneInFlight
    /\ IF FalsyString(name) \/ FalsyString(sid) \/ FalsyString(d) \/ FalsyChars(t)
       THEN /\ conn' = [conn EXCEPT ![p] =
                           Finished("counselor_meeting", c, Body(c, d, t, NULL),
                                    Answer(400, "All required fields must be provided"))]
            /\ UNCHANGED <<counselor_meetings, nextMeetingId>>
       ELSE IF c \notin Counselors
       THEN /\ conn' = [conn EXCEPT ![p] =
                           Finished("counselor_meeting", c, Body(c, d, t, NULL),
                                    Answer(404, "Counselor not found"))]
            /\ UNCHANGED <<counselor_meetings, nextMeetingId>>
       ELSE /\ nextMeetingId <= MaxMeetings
            /\ counselor_meetings' = counselor_meetings \cup
                   {Row(nextMeetingId, c, NULL, NULL, name, <<sid>>, d, t, duration_default)}
            /\ nextMeetingId' = nextMeetingId + 1
            /\ conn' = [conn EXCEPT ![p] =
                           Finished("counselor_meeting", c, Body(c, d, t, NULL),
                                    Answer(201, "Meeting scheduled successfully"))]
    /\ UnchangedButMeetings

\* PUT /meetings/:meetingId/notes: notes and status are optional; the status
\* is written as given
UpdateMeetingNotes(p, meetingId, hasNotes, status) ==
    /\ NoneInFlight
    /\ IF \A m \in counselor_meetings : m.id # meetingId
       THEN /\ conn' = [conn EXCEPT ![p] =
                           Finished("update_notes", meetingId, NoBody,
                                    Answer(404, "Meeting not found"))]
            /\ UNCHANGED counselor_meetings
       ELSE IF ~hasNotes /\ FalsyString(status)
       THEN /\ conn' = [conn EXCEPT ![p] =
                           Finished("update_notes", meetingId, NoBody,
                                    Answer(400, "No fields to update"))]
            /\ UNCHANGED counselor_meetings
       ELSE /\ counselor_meetings' =
                   {IF m.id = meetingId /\ ~FalsyString(status)
                    THEN [m EXCEPT !.status = status] ELSE m : m \in counselor_meetings}
            /\ conn' = [conn EXCEPT ![p] =
                           Finished("update_notes", meetingId, NoBody,
                                    Answer(200, "Meeting updated successfully"))]
    /\ UNCHANGED nextMeetingId
    /\ UnchangedButMeetings

\* DELETE /counselors/:counselorId/meetings/:meetingId
DeleteMeeting(p, c, meetingId) ==
    /\ NoneInFlight
    /\ IF \A m \in counselor_meetings : ~(m.id = meetingId /\ m.counselor_id = c)
       THEN /\ conn' = [conn EXCEPT ![p] =
                           Finished("delete_meeting", meetingId, NoBody,
                                    Answer(404, "Meeting not found"))]
            /\ UNCHANGED counselor_meetings
       ELSE /\ counselor_meetings' = {m \in counselor_meetings : m.id # meetingId}
            /\ conn' = [conn EXCEPT ![p] =
                           Finished("delete_meeting", meetingId, NoBody,
                                    Answer(200, "Meeting deleted successfully"))]
    /\ UNCHANGED nextMeetingId
    /\ UnchangedButMeetings

\* the largest element of a non-empty set of integers
Max(S) == CHOOSE x \in S : \A y \in S : y <= x

\* MAX(CAST(SUBSTRING(student_id, 8) AS UNSIGNED)) over the client users, 0 for none
MaxStudentNumber ==
    LET ns == {u.student_id[2] : u \in {v \in users : v.role = "client" /\ v.student_id # <<>>}}
    IN IF ns = {} THEN 0 ELSE Max(ns)

\* a registration that creates the user and marks the lead, and moves nothing
RegisterStudentMovesNothing(p, leadId) ==
    /\ NoneInFlight
    /\ leadId \in DOMAIN leads
    /\ ~leads[leadId].is_registered
    /\ \A u \in users : u.email # leads[leadId].email
    /\ users' = users \cup
           {[id |-> Max({u.id : u \in users}) + 1, name |-> leads[leadId].full_name,
             email |-> leads[leadId].email, role |-> "client",
             student_id |-> <<"STU", MaxStudentNumber + 1>>]}
    /\ leads' = [leads EXCEPT ![leadId].is_registered = TRUE]
    /\ conn' = [conn EXCEPT ![p] =
                   Finished("register_student", leadId, NoBody,
                            Answer(200, "Lead successfully registered as student"))]
    /\ UNCHANGED <<counselor_meetings, nextMeetingId, lead_counselor_assignments,
                   student_counselors, duration_default, follow_ups, lead_changes, pool>>

\* a registration without the is_registered and email checks
RegisterStudentUnchecked(p, leadId) ==
    /\ NoneInFlight
    /\ leadId \in DOMAIN leads
    /\ users' = users \cup
           {[id |-> Max({u.id : u \in users}) + 1, name |-> leads[leadId].full_name,
             email |-> leads[leadId].email, role |-> "client",
             student_id |-> <<"STU", MaxStudentNumber + 1>>]}
    /\ Max({u.id : u \in users}) < 5
    /\ leads' = [leads EXCEPT ![leadId].is_registered = TRUE]
    /\ conn' = [conn EXCEPT ![p] =
                   Finished("register_student", leadId, NoBody,
                            Answer(200, "Lead successfully registered as student"))]
    /\ UNCHANGED <<counselor_meetings, nextMeetingId, lead_counselor_assignments,
                   student_counselors, duration_default, follow_ups, lead_changes, pool>>

\* POST /leads/:leadId/register-student
RegisterStudent(p, leadId) ==
    /\ NoneInFlight
    /\ IF leadId \notin DOMAIN leads
       THEN /\ conn' = [conn EXCEPT ![p] =
                           Finished("register_student", leadId, NoBody,
                                    Answer(404, "Lead not found"))]
            /\ UNCHANGED <<counselor_meetings, student_counselors, leads, users>>
       ELSE IF leads[leadId].is_registered
       THEN /\ conn' = [conn EXCEPT ![p] =
                           Finished("register_student", leadId, NoBody,
                                    Answer(400, "This lead is already registered as a student"))]
            /\ UNCHANGED <<counselor_meetings, student_counselors, leads, users>>
       ELSE IF \E u \in users : u.email = leads[leadId].email
       THEN /\ conn' = [conn EXCEPT ![p] =
                           Finished("register_student", leadId, NoBody,
                                    Answer(409, "A user with this email already exists in the system"))]
            /\ UNCHANGED <<counselor_meetings, student_counselors, leads, users>>
       ELSE LET userId == Max({u.id : u \in users}) + 1
            IN /\ users' = users \cup
                      {[id |-> userId, name |-> leads[leadId].full_name,
                        email |-> leads[leadId].email, role |-> "client",
                        student_id |-> <<"STU", MaxStudentNumber + 1>>]}
               /\ student_counselors' = student_counselors \cup
                      {<<userId, a[2]>> : a \in {x \in lead_counselor_assignments : x[1] = leadId}}
               /\ counselor_meetings' =
                      {IF m.lead_id = leadId
                       THEN [m EXCEPT !.user_id = userId, !.lead_id = NULL]
                       ELSE m : m \in counselor_meetings}
               /\ leads' = [leads EXCEPT ![leadId].is_registered = TRUE]
               /\ conn' = [conn EXCEPT ![p] =
                              Finished("register_student", leadId, NoBody,
                                       Answer(200, "Lead successfully registered as student"))]
    /\ UNCHANGED <<nextMeetingId, lead_counselor_assignments, duration_default,
                   follow_ups, lead_changes>>
    /\ UNCHANGED pool

(***************************************************************************)
(* GET /counselors/:counselorId/available-slots                            *)
(***************************************************************************)
\* the position of a character in the collation: digits before the colon
CharCode(ch) == IF ch \in Digits THEN DigitValue(ch) ELSE 10

\* s <= t for strings, character by character
RECURSIVE StringLeFrom(_, _, _)
StringLeFrom(s, t, i) ==
    IF i > Len(s) THEN TRUE
    ELSE IF i > Len(t) THEN FALSE
    ELSE IF CharCode(s[i]) < CharCode(t[i]) THEN TRUE
    ELSE IF CharCode(s[i]) > CharCode(t[i]) THEN FALSE
    ELSE StringLeFrom(s, t, i + 1)

StringLe(s, t) == StringLeFrom(s, t, 1)

\* the results of SELECT ... ORDER BY meeting_time: every order of the
\* rows that is ascending in meeting_time (rows with equal times in any order)
OrderedMeetings(c, d) ==
    LET rows == ActiveMeetings(c, d)
        n == Cardinality(rows)
    IN {f \in [1..n -> rows] :
           /\ \A i, j \in 1..n : i # j => f[i] # f[j]
           /\ \A i, j \in 1..n : i < j => StringLe(f[i].meeting_time, f[j].meeting_time)}

\* meetings.map(meeting => ({start: startMinutes, end: endMinutes}))
BookedSlots(rows) ==
    [i \in 1..Len(rows) |-> [start |-> MStart(rows[i]), end |-> MEnd(rows[i])]]

GetAvailableSlots(p, c, d) ==
    /\ NoneInFlight
    /\ IF FalsyString(d)
       THEN conn' = [conn EXCEPT ![p] =
                        Finished("available_slots", c, Body(c, d, <<>>, NULL),
                                 Answer(400, "Date parameter is required"))]
       ELSE \E rows \in OrderedMeetings(c, d) :
                conn' = [conn EXCEPT ![p] =
                            Finished("available_slots", c, Body(c, d, <<>>, NULL),
                                     [NoRes EXCEPT !.status = 200, !.slots = BookedSlots(rows)])]
    /\ UNCHANGED <<counselor_meetings, nextMeetingId>>
    /\ UnchangedButMeetings

(***************************************************************************)
(* SpecSched: lead and student scheduling requests only, one at a time.    *)
(***************************************************************************)
InitSched ==
    /\ InitTables
    /\ duration_default = NULL
    /\ conn = [p \in {1} |-> Idle]

NextSched ==
    \/ \E r \in LeadRequests : LeadStart(1, r, TRUE)
    \/ \E r \in StudentRequests : StudentStart(1, r, TRUE)
    \/ ScheduleStep(1)

SpecSched == InitSched /\ [][NextSched]_vars

(***************************************************************************)
(* Spec: every handler that writes or reads counselor_meetings, one        *)
(* request at a time.  The default of the duration_minutes column is not   *)
(* set by the code: it is some fixed value, NULL or a number.              *)
(***************************************************************************)
CoreBodies == {Body(1, D1, T0900, 15), Body(1, D1, T0900, 30), Body(1, D1, T0915, 30)}
CoreLeadRequests == {<<1, b>> : b \in CoreBodies}
CoreStudentRequests ==
    {<<1, b>> : b \in CoreBodies} \cup {<<3, Body(1, D1, T0915, 30)>>}
CounselorRequests ==
    { <<1, "Zed", T0830>>, <<1, "Zed", T0900>>, <<2, "Zed", T0900>>,
      <<3, "Zed", T0900>>, <<1, "", T0900>> }
NotesRequests ==
    {<<FALSE, "">>, <<TRUE, "">>, <<FALSE, "Scheduled">>, <<FALSE, "Completed">>,
     <<FALSE, "Cancelled">>}
MeetingIds == 1..MaxMeetings

Init ==
    /\ InitTables
    /\ duration_default \in {NULL, 30}
    /\ conn = [p \in {1} |-> Idle]

ScheduleStepNoFault(p) ==
    \/ LeadBegin(p) \/ LeadAssignment(p) \/ LeadSubject(p)
    \/ LeadConflicts(p) \/ LeadInsert(p) \/ LeadCommit(p)
    \/ StudentBegin(p) \/ StudentAssignment(p) \/ StudentSubject(p)
    \/ StudentConflicts(p) \/ StudentInsert(p) \/ StudentCommit(p)

Next ==
    \/ \E r \in CoreLeadRequests : LeadStart(1, r, TRUE)
    \/ \E r \in CoreStudentRequests : StudentStart(1, r, TRUE)
    \/ ScheduleStepNoFault(1)
    \/ \E r \in CounselorRequests : CounselorMeeting(1, r[1], r[2], "X1", D1, r[3])
    \/ \E id \in MeetingIds, r \in NotesRequests : UpdateMeetingNotes(1, id, r[1], r[2])
    \/ \E c \in Counselors, id \in MeetingIds : DeleteMeeting(1, c, id)
    \/ \E l \in {1, 2} : RegisterStudent(1, l)
    \/ \E c \in Counselors, d \in {"", D1} : GetAvailableSlots(1, c, d)

Spec == Init /\ [][Next]_vars

(***************************************************************************)
(* SpecConc: two scheduling requests in flight at once, their store calls  *)
(* interleaved in any order.                                               *)
(***************************************************************************)
ConcBodies == {Body(1, D1, T0900, 30), Body(1, D1, T0915, 30)}

InitConc ==
    /\ InitTables
    /\ duration_default = NULL
    /\ conn = [p \in {1, 2} |-> Idle]

NextConc ==
    \E p \in {1, 2} :
        \/ \E b \in ConcBodies : LeadStart(p, <<1, b>>, FALSE)
        \/ \E b \in ConcBodies : StudentStart(p, <<1, b>>, FALSE)
        \/ ScheduleStep(p)

SpecConc == InitConc /\ [][NextConc]_vars

(***************************************************************************)
(* Intervals, as the claims speak of them.                                 *)
(***************************************************************************)
Larger(a, b) == IF a >= b THEN a ELSE b
Smaller(a, b) == IF a <= b THEN a ELSE b

\* the half-open intervals [s1, e1) and [s2, e2) share a minute
Intersect(s1, e1, s2, e2) ==
    /\ s1 # NaN /\ e1 # NaN /\ s2 # NaN /\ e2 # NaN
    /\ Larger(s1, s2) < Smaller(e1, e2)

RowsIntersect(a, b) == Intersect(MStart(a), MEnd(a), MStart(b), MEnd(b))

\* two stored meetings overlap: their intervals share a minute; two meetings
\* whose stored time has no numeric reading still start together when the
\* stored time is the same, and then overlap when both last
RowsOverlap(a, b) ==
    IF MStart(a) # NaN /\ MStart(b) # NaN
    THEN RowsIntersect(a, b)
    ELSE /\ a.meeting_time = b.meeting_time
         /\ a.duration_minutes # NULL /\ a.duration_minutes > 0
         /\ b.duration_minutes # NULL /\ b.duration_minutes > 0

SameCounselorAndDate(a, b) ==
    a.counselor_id = b.counselor_id /\ a.meeting_date = b.meeting_date

IsScheduling(c) == c.op \in {"lead_meeting", "student_meeting"}

(***************************************************************************)
(* C1.  No double-booking, sequential case: after any sequence of lead and *)
(* student scheduling requests, each run to completion before the next     *)
(* starts, every two stored meetings with status != Cancelled of the same  *)
(* counselor and date have disjoint intervals [start, start + duration).   *)
(* Checked under SpecSched.                                                *)
(***************************************************************************)
C1_NoDoubleBooking ==
    \A a, b \in counselor_meetings :
        (a.id # b.id /\ SameCounselorAndDate(a, b)
            /\ a.status # "Cancelled" /\ b.status # "Cancelled")
            => ~RowsOverlap(a, b)

(***************************************************************************)
(* C2.  No double-booking, concurrent case: when two scheduling requests   *)
(* for the same counselor and date with overlapping intervals run          *)
(* concurrently, at most one of the two commits a meeting.  Checked under  *)
(* SpecConc.                                                               *)
(***************************************************************************)
C2_AtMostOneCommits ==
    ~ \E a, b \in counselor_meetings :
          /\ a.id < b.id /\ SameCounselorAndDate(a, b)
          /\ a.status = "Scheduled" /\ b.status = "Scheduled"
          /\ RowsOverlap(a, b)

(***************************************************************************)
(* C3.  Store-wide non-overlap: in every state reachable by the handlers   *)
(* that write meetings (lead, student and counselor scheduling, the notes  *)
(* update with a status, the meeting delete, register-student) the         *)
(* non-cancelled meetings of one counselor on one date do not overlap      *)
(* pairwise.  Checked under Spec.                                          *)
(***************************************************************************)
C3_StoreWideNoOverlap ==
    \A a \in counselor_meetings :
        \A b \in counselor_meetings \ {a} :
            (SameCounselorAndDate(a, b) /\ a.status # "Cancelled" /\ b.status # "Cancelled")
                => ~RowsOverlap(a, b)

(***************************************************************************)
(* C4.  Business-hours containment: every meeting that a lead or student   *)
(* scheduling request inserts has startMinuteOffset >= 540 and             *)
(* startMinuteOffset + durationMinutes <= 1020.  Checked under SpecSched,  *)
(* where every stored row was inserted by one of the two handlers.         *)
(***************************************************************************)
C4_BusinessHoursContainment ==
    \A m \in counselor_meetings :
        JsGe(MStart(m), 540) /\ JsLe(JsAdd(MStart(m), m.duration_minutes), 1020)

(***************************************************************************)
(* C5.  Duration bound: a scheduling request with durationMinutes < 15 or  *)
(* durationMinutes > 480 fails with HTTP 400 on both endpoints, whatever   *)
(* the other inputs (a store failure, answered 500, set aside).            *)
(***************************************************************************)
C5_DurationBound ==
    \A p \in DOMAIN conn :
        (/\ conn[p].pc = "done" /\ IsScheduling(conn[p])
         /\ conn[p].req.durationMinutes # NULL
         /\ (conn[p].req.durationMinutes < 15 \/ conn[p].req.durationMinutes > 480)
         /\ conn[p].res.status # 500)
            => conn[p].res.status = 400

Tables ==
    <<counselor_meetings, lead_counselor_assignments, student_counselors, leads, users>>

C7_FailurePersistsNothing ==
    [][Tables' # Tables => (conn'[1].pc = "done" /\ conn'[1].res.status = 201)]_vars

\* a request answered 500 after its INSERT had been issued and rolled back
C7_Witness ==
    /\ conn[1].pc = "done" /\ conn[1].res.status = 500
    /\ nextMeetingId > Cardinality(counselor_meetings) + 1

(***************************************************************************)
(* C8.  Check order: a scheduling request is checked in the order          *)
(* presence, duration bound, assignment, subject existence, business       *)
(* hours, overlap, and the error returned is that of the first check in    *)
(* this order that fails, on both endpoints.                               *)
(***************************************************************************)
SubjectAssigned(c) ==
    IF c.op = "lead_meeting"
    THEN <<c.id, c.req.counselorId>> \in lead_counselor_assignments
    ELSE <<c.id, c.req.counselorId>> \in student_counselors

SubjectExists(c) ==
    IF c.op = "lead_meeting" THEN c.id \in DOMAIN leads ELSE ClientUsers(c.id) # {}

FirstFailingCheck(c) ==
    IF MissingField(c.req) THEN "All required fields must be provided"
    ELSE IF c.req.durationMinutes < 15 \/ c.req.durationMinutes > 480
    THEN "Duration must be between 15 minutes and 8 hours"
    ELSE IF ~SubjectAssigned(c)
    THEN (IF c.op = "lead_meeting" THEN "This counselor is not assigned to this lead"
          ELSE "This counselor is not assigned to this student")
    ELSE IF ~SubjectExists(c)
    THEN (IF c.op = "lead_meeting" THEN "Lead not found" ELSE "Student not found")
    ELSE IF JsLt(StartMinutes(c.req), 540) \/ JsGt(EndMinutes(c.req), 1020)
    THEN "Meetings must be scheduled between 9:00 AM and 5:00 PM"
    ELSE "conflicts"

C8_CheckOrder ==
    \A p \in DOMAIN conn :
        (conn[p].pc = "done" /\ IsScheduling(conn[p])
            /\ conn[p].res.status \in {400, 404, 409})
            => conn[p].res.message = FirstFailingCheck(conn[p])

(***************************************************************************)
(* C9.  Acceptance: a scheduling request succeeds with 201 whenever all    *)
(* required fields are present, 15 <= durationMinutes <= 480, the          *)
(* counselor is assigned to the subject, the subject exists, start >= 540, *)
(* end <= 1020 and the new interval overlaps no non-cancelled meeting of   *)
(* that counselor on that date (a store failure, answered 500, set aside). *)
(* A rejected request leaves the store as it was, so the conditions are    *)
(* read in the state that holds the answer.                                *)
(***************************************************************************)
RequestIntersects(b, m) ==
    Intersect(StartMinutes(b), EndMinutes(b), MStart(m), MEnd(m))

AcceptConditions(c) ==
    /\ ~MissingField(c.req)
    /\ c.req.durationMinutes >= 15 /\ c.req.durationMinutes <= 480
    /\ SubjectAssigned(c) /\ SubjectExists(c)
    /\ StartMinutes(c.req) # NaN
    /\ StartMinutes(c.req) >= 540 /\ EndMinutes(c.req) <= 1020
    /\ \A m \in ActiveMeetings(c.req.counselorId, c.req.meetingDate) :
           ~RequestIntersects(c.req, m)

C9_Acceptance ==
    \A p \in DOMAIN conn :
        (conn[p].pc = "done" /\ IsScheduling(conn[p]) /\ AcceptConditions(conn[p]))
            => conn[p].res.status \in {201, 500}

(***************************************************************************)
(* C10.  Conflict report: when the earlier checks pass and the new         *)
(* interval overlaps a non-cancelled meeting of the same counselor and     *)
(* date, the request is answered 409 (500 on a store failure) and nothing  *)
(* is inserted; and a request answered 409 names the start time and the    *)
(* duration of a stored non-cancelled meeting of that counselor and date   *)
(* whose interval really overlaps the requested one.                       *)
(***************************************************************************)
OtherActiveMeetings(c) ==
    {m \in ActiveMeetings(c.req.counselorId, c.req.meetingDate) :
        ~(c.res.status = 201 /\ m.id = nextMeetingId - 1)}

C10_ConflictReport ==
    \A p \in DOMAIN conn :
        (conn[p].pc = "done" /\ IsScheduling(conn[p]))
            => /\ (/\ FirstFailingCheck(conn[p]) = "conflicts"
                   /\ \E m \in OtherActiveMeetings(conn[p]) :
                          RequestIntersects(conn[p].req, m))
                      => conn[p].res.status \in {409, 500}
               /\ conn[p].res.status = 409
                      => \E m \in ActiveMeetings(conn[p].req.counselorId,
                                                 conn[p].req.meetingDate) :
                             /\ m.meeting_time = conn[p].res.m_time
                             /\ m.duration_minutes = conn[p].res.m_dur
                             /\ RequestIntersects(conn[p].req, m)

(***************************************************************************)
(* C11.  Not-found mapping: a scheduling request that names a counselor, a *)
(* subject or a counselor-subject assignment that does not exist is        *)
(* answered 404.  Stated for requests with all fields present and a        *)
(* duration in range, so that no earlier check answers first (a store      *)
(* failure, answered 500, set aside).  Checked under SpecSched.            *)
(***************************************************************************)
DurationInRange(b) ==
    b.durationMinutes >= 15 /\ b.durationMinutes <= 480

C11_NotFoundMapping ==
    \A p \in DOMAIN conn :
        (/\ conn[p].pc = "done" /\ IsScheduling(conn[p])
         /\ ~MissingField(conn[p].req) /\ DurationInRange(conn[p].req)
         /\ (~SubjectAssigned(conn[p]) \/ ~SubjectExists(conn[p]))
         /\ conn[p].res.status # 500)
            => conn[p].res.status = 404

(***************************************************************************)
(* C12.  Malformed start time: a scheduling request whose meetingTime does *)
(* not parse to numeric hours and minutes is never accepted (201) nor      *)
(* taken through the overlap check (409), and when every earlier check     *)
(* passes it is answered 400 (a store failure, answered 500, set aside).   *)
(* Checked under SpecSched.                                                *)
(***************************************************************************)
C12_MalformedTimeRejected ==
    \A p \in DOMAIN conn :
        (/\ conn[p].pc = "done" /\ IsScheduling(conn[p])
         /\ ~MissingField(conn[p].req)
         /\ StartMinutes(conn[p].req) = NaN
         /\ conn[p].res.status # 500)
            => /\ conn[p].res.status \notin {201, 409}
               /\ (DurationInRange(conn[p].req) /\ SubjectAssigned(conn[p])
                       /\ SubjectExists(conn[p]))
                      => conn[p].res.status = 400

(***************************************************************************)
(* SpecFault: scheduling requests, one at a time, where every store call   *)
(* may throw: a query, the insert or the commit (ScheduleCatch), the       *)
(* acquisition of the connection, and the rollback of the catch block.     *)
(***************************************************************************)
\* what the client gets when the handler's promise rejects with no response
\* sent: nothing at all, or the framework's own 500 page (no handler in the
\* source catches the rejection; which of the two depends on the framework)
UnhandledOutcomes == {NoRes, Answer(500, "")}

\* const connection = await pool.getConnection() throws: the statement
\* stands before the try block, so neither catch nor finally runs
GetConnectionFails(p, op, r) ==
    /\ NoneInFlight
    /\ \E res \in UnhandledOutcomes :
           conn' = [conn EXCEPT ![p] = Finished(op, r[1], r[2], res)]
    /\ UNCHANGED <<counselor_meetings, nextMeetingId, lead_counselor_assignments,
                   student_counselors, leads, users, duration_default,
                   follow_ups, lead_changes>>
    /\ UNCHANGED pool

\* a store call throws and connection.rollback() of the catch block throws
\* as well (the connection is lost, and its transaction with it): the
\* res.status(500) after it never runs, finally releases the connection
ScheduleCatchRollbackFails(p) ==
    /\ conn[p].op \in {"lead_meeting", "student_meeting"}
    /\ conn[p].pc \in StoreSteps
    /\ \E res \in UnhandledOutcomes :
           conn' = [conn EXCEPT ![p] =
                       [conn[p] EXCEPT !.pc = "done", !.pending = {}, !.res = res,
                                        !.releases = @ + 1]]
    /\ UNCHANGED <<counselor_meetings, nextMeetingId, lead_counselor_assignments,
                   student_counselors, leads, users, duration_default,
                   follow_ups, lead_changes>>
    /\ Release(p)

NextFault ==
    \/ \E r \in CoreLeadRequests : LeadStart(1, r, TRUE)
    \/ \E r \in CoreStudentRequests : StudentStart(1, r, TRUE)
    \/ ScheduleStep(1)
    \/ \E r \in CoreLeadRequests : GetConnectionFails(1, "lead_meeting", r)
    \/ \E r \in CoreStudentRequests : GetConnectionFails(1, "student_meeting", r)
    \/ ScheduleCatchRollbackFails(1)

SpecFault == InitSched /\ [][NextFault]_vars

(***************************************************************************)
(* C13.  Storage failure: a scheduling request in which a store operation  *)
(* fails (acquiring the connection, beginning the transaction, a query,    *)
(* the insert, the commit or a rollback) still ends with one response, and *)
(* that response is the 500 of the handler with success false: a finished  *)
(* request holds an answer 201, 400, 404 or 409, or the handler's 500.     *)
(* Checked under SpecFault.                                                *)
(***************************************************************************)
C13_StorageFailure ==
    \A p \in DOMAIN conn :
        (conn[p].pc = "done" /\ IsScheduling(conn[p]))
            => \/ conn[p].res.status \in {201, 400, 404, 409}
               \/ /\ conn[p].res.status = 500
                  /\ conn[p].res.message = "An error occurred while scheduling the meeting"

(***************************************************************************)
(* SpecAvail: the availability read next to the handlers that fill and     *)
(* cancel the bookings it reports, one request at a time.  The date of the *)
(* query is missing, a calendar date, or a string that is no date; the     *)
(* handler looks at nothing but its presence.                              *)
(***************************************************************************)
DNoDate == "2024-13-45"
QueryDates == {"", D1, DNoDate}

AvailLeadRequests ==
    {<<1, b>> : b \in {Body(1, D1, T0900, 15), Body(1, D1, T0900, 30),
                       Body(1, D1, T0915, 30), Body(1, D1, TNoColon, 15)}}
AvailStudentRequests == {<<1, Body(1, D1, T0830, 30)>>, <<1, Body(1, D1, T1645, 15)>>}
AvailNotesRequests == {<<FALSE, "Cancelled">>, <<FALSE, "Scheduled">>, <<TRUE, "">>}

NextAvail ==
    \/ \E r \in AvailLeadRequests : LeadStart(1, r, TRUE)
    \/ \E r \in AvailStudentRequests : StudentStart(1, r, TRUE)
    \/ ScheduleStepNoFault(1)
    \/ \E id \in MeetingIds, r \in AvailNotesRequests : UpdateMeetingNotes(1, id, r[1], r[2])
    \/ \E c \in Counselors, d \in QueryDates : GetAvailableSlots(1, c, d)

SpecAvail == InitSched /\ [][NextAvail]_vars

\* a finished availability read that returned a bookedSlots list
IsSlotsAnswer(c) ==
    c.pc = "done" /\ c.op = "available_slots" /\ c.res.status = 200

(***************************************************************************)
(* C14.  Availability output: the bookedSlots list has exactly one pair    *)
(* per stored meeting of the counselor and date whose status is not        *)
(* Cancelled, with start = hour*60 + minute, a number of minutes, and      *)
(* end = start + durationMinutes, in ascending order of start; with no     *)
(* booking the list is empty.  Checked under SpecAvail.                    *)
(***************************************************************************)
C14_AvailabilityOutput ==
    \A p \in DOMAIN conn :
        IsSlotsAnswer(conn[p]) =>
            LET rows == ActiveMeetings(conn[p].id, conn[p].req.meetingDate)
                n == Cardinality(rows)
                slots == conn[p].res.slots
            IN /\ Len(slots) = n
               /\ \E f \in [1..n -> rows] :
                      /\ \A i, j \in 1..n : i # j => f[i] # f[j]
                      /\ \A i \in 1..n :
                             /\ MStart(f[i]) # NaN
                             /\ slots[i].start = MStart(f[i])
                             /\ slots[i].end = MStart(f[i]) + f[i].duration_minutes
               /\ \A i, j \in 1..n : i < j => slots[i].start <= slots[j].start

(***************************************************************************)
(* C15.  Availability is a pure read: a call changes no stored state, and  *)
(* a call that follows another one for the same counselor and date, with   *)
(* no write between them, returns the same result.  Checked under          *)
(* SpecAvail.                                                              *)
(***************************************************************************)
C15_PureRead ==
    [][(conn'[1].op = "available_slots" /\ conn'[1] # conn[1])
          => /\ Tables' = Tables /\ nextMeetingId' = nextMeetingId
             /\ (/\ IsSlotsAnswer(conn[1]) /\ IsSlotsAnswer(conn'[1])
                 /\ conn'[1].id = conn[1].id
                 /\ conn'[1].req.meetingDate = conn[1].req.meetingDate)
                    => conn'[1].res.slots = conn[1].res.slots]_vars

(***************************************************************************)
(* C16.  Availability input check: the read answers 400, and returns no    *)
(* bookedSlots list, both when the date parameter is missing and when it   *)
(* is present but no calendar date.  Checked under SpecAvail.              *)
(***************************************************************************)
C16_InvalidDateRejected ==
    \A p \in DOMAIN conn :
        (/\ conn[p].pc = "done" /\ conn[p].op = "available_slots"
         /\ conn[p].req.meetingDate \in {"", DNoDate})
            => conn[p].res.status = 400

(***************************************************************************)
(* C17.  Stored duration range: every stored meeting has a durationMinutes *)
(* with 15 <= durationMinutes <= 480.  Checked under SpecSched, for the    *)
(* rows of the lead and the student endpoint.                              *)
(***************************************************************************)
C17_StoredDurationRange ==
    \A m \in counselor_meetings :
        /\ m.duration_minutes # NULL
        /\ m.duration_minutes >= 15 /\ m.duration_minutes <= 480

(***************************************************************************)
(* C18.  Status lifecycle: a meeting is created Scheduled, the only status *)
(* changes made to a stored meeting are Scheduled -> Completed and         *)
(* Scheduled -> Cancelled, and the status is always one of Scheduled,      *)
(* Completed, Cancelled.  Checked under Spec.                              *)
(***************************************************************************)
Statuses == {"Scheduled", "Completed", "Cancelled"}

C18_StatusLifecycle ==
    [][/\ \A n \in counselor_meetings' :
              /\ n.status \in Statuses
              /\ (\A m \in counselor_meetings : m.id # n.id) => n.status = "Scheduled"
       /\ \A m \in counselor_meetings, n \in counselor_meetings' :
              (m.id = n.id /\ m.status # n.status)
                  => (m.status = "Scheduled" /\ n.status \in {"Completed", "Cancelled"})]_vars

(***************************************************************************)
(* C19.  Subject exclusivity: every stored meeting has exactly one of its  *)
(* lead reference and its student reference set and the other null, after  *)
(* any sequence of lead scheduling, student scheduling, counselor meeting  *)
(* creation and register-student.  Checked under Spec.                     *)
(***************************************************************************)
C19_SubjectExclusivity ==
    \A m \in counselor_meetings :
        (m.lead_id # NULL) # (m.user_id # NULL)

(***************************************************************************)
(* SpecOverlap: the conflict test on a grid of intervals.  The store       *)
(* starts with one booking of counselor 1, drawn from the grid (a lead     *)
(* meeting accepted earlier); lead and student requests from the same grid *)
(* run against it, one at a time.                                          *)
(***************************************************************************)
T0930 == <<"0", "9", ":", "3", "0">>
T0945 == <<"0", "9", ":", "4", "5">>
GridTimes == {T0900, T0915, T0930, T0945}
GridDurations == {15, 30, 60}
GridBodies == {Body(1, D1, t, m) : t \in GridTimes, m \in GridDurations}

InitOverlap ==
    /\ \E t \in GridTimes, m \in GridDurations :
           counselor_meetings = {Row(1, 1, 1, NULL, "Ann", <<"LEAD-", 1>>, D1, t, m)}
    /\ nextMeetingId = 2
    /\ follow_ups = [rows |-> <<>>, auto_increment |-> 1]
    /\ lead_changes = {}
    /\ pool = connectionLimit
    /\ lead_counselor_assignments = {<<1, 1>>}
    /\ student_counselors = {<<1, 1>>, <<2, 1>>}
    /\ leads = [i \in {1} |->
                   [full_name |-> "Ann", email |-> "ann@x.io", phone |-> "03001234567",
                    address |-> "1 Main Street", interest |-> "IT", comments |-> "",
                    is_registered |-> FALSE, is_follow_up |-> FALSE, status |-> "New"]]
    /\ users = { [id |-> 1, name |-> "Bob", email |-> "bob@x.io", role |-> "client",
                  student_id |-> <<"STU", 1>>],
                 [id |-> 2, name |-> "Eve", email |-> "eve@x.io", role |-> "admin",
                  student_id |-> <<>>] }
    /\ duration_default = NULL
    /\ conn = [p \in {1} |-> Idle]

NextOverlap ==
    \/ \E b \in GridBodies : LeadStart(1, <<1, b>>, TRUE)
    \/ \E b \in GridBodies : StudentStart(1, <<1, b>>, TRUE)
    \/ ScheduleStepNoFault(1)

SpecOverlap == InitOverlap /\ [][NextOverlap]_vars

(***************************************************************************)
(* C20.  Overlap predicate: for a new interval [start, end) and a stored   *)
(* interval [mStart, mEnd), both of positive duration, the three-clause    *)
(* test of the scheduler is true exactly when start < mEnd and             *)
(* mStart < end; so a request that reaches the insert intersects no        *)
(* booking.  Checked under SpecOverlap, at the step that runs the test.    *)
(***************************************************************************)
HalfOpenIntersect(b, m) ==
    StartMinutes(b) < MEnd(m) /\ MStart(m) < EndMinutes(b)

C20_OverlapPredicate ==
    \A p \in DOMAIN conn :
        /\ (conn[p].pc = "conflicts" /\ conn[p].req.durationMinutes > 0)
               => \A m \in ActiveMeetings(conn[p].req.counselorId, conn[p].req.meetingDate) :
                      m.duration_minutes > 0
                          => ((IF conn[p].op = "lead_meeting"
                               THEN LeadOverlaps(conn[p].req, m)
                               ELSE StudentOverlaps(conn[p].req, m))
                                  <=> HalfOpenIntersect(conn[p].req, m))
        /\ (conn[p].pc = "insert" /\ conn[p].req.durationMinutes > 0)
               => \A m \in ActiveMeetings(conn[p].req.counselorId, conn[p].req.meetingDate) :
                      m.duration_minutes > 0 => ~HalfOpenIntersect(conn[p].req, m)

\* the test is about to run on a request that strictly contains a booking,
\* the case only the third clause sees
C20_Witness ==
    /\ conn[1].pc = "conflicts" /\ conn[1].op = "lead_meeting"
    /\ \E m \in ActiveMeetings(conn[1].req.counselorId, conn[1].req.meetingDate) :
           StartMinutes(conn[1].req) < MStart(m) /\ EndMinutes(conn[1].req) > MEnd(m)

(***************************************************************************)
(* C21.  Order independence: for a fixed store and a fixed scheduling      *)
(* request, acceptance or rejection with a conflict is the same for every  *)
(* order in which the meetings of the counselor and date are returned and  *)
(* iterated: before the loop runs all orders agree, a request that went on *)
(* to the insert has no order that finds a conflict, and a request         *)
(* answered 409 has no order that finds none.  Checked under SpecSched.    *)
(***************************************************************************)
LoopFindsConflict(c, rows) ==
    IF c.op = "lead_meeting"
    THEN LeadFirstConflict(rows, c.req) # 0
    ELSE StudentFirstConflict(rows, c.req) # 0

C21_OrderIndependence ==
    \A p \in DOMAIN conn :
        IsScheduling(conn[p]) =>
            LET orders == Orderings(ActiveMeetings(conn[p].req.counselorId,
                                                   conn[p].req.meetingDate))
            IN /\ conn[p].pc = "conflicts"
                      => \A r1, r2 \in orders :
                             LoopFindsConflict(conn[p], r1) <=> LoopFindsConflict(conn[p], r2)
               /\ conn[p].pc = "insert"
                      => \A r \in orders : ~LoopFindsConflict(conn[p], r)
               /\ (conn[p].pc = "done" /\ conn[p].res.status = 409)
                      => \A r \in orders : LoopFindsConflict(conn[p], r)

\* the loop is about to run over two stored meetings of which exactly one
\* collides with the request
C21_Witness ==
    /\ conn[1].pc = "conflicts" /\ conn[1].op = "lead_meeting"
    /\ \E a, b \in ActiveMeetings(conn[1].req.counselorId, conn[1].req.meetingDate) :
           a # b /\ LeadOverlaps(conn[1].req, a) /\ ~LeadOverlaps(conn[1].req, b)

(***************************************************************************)
(* SpecPair: the same body sent to the lead endpoint (for lead 1) and to   *)
(* the student endpoint (for student 1) at once, on two connections.  Lead *)
(* 1 and student 1 both exist and have the same assignments, so the        *)
(* assignment and subject facts of the two requests are equal.             *)
(***************************************************************************)
PairBodies ==
    {Body(1, D1, t, m) : t \in {T0830, T0900, T0915}, m \in {-30, 15, 30, 600}}
        \cup {Body(2, D1, T0900, 30), Body(2, D1, T0900, 600), Body(1, D1, T0900, NULL)}

\* both routes accept a request with body b
StartPair(b) ==
    /\ NoneInFlight
    /\ conn' = [conn EXCEPT
                   ![1] = [Idle EXCEPT !.pc = "begin", !.op = "lead_meeting",
                                       !.id = 1, !.req = b],
                   ![2] = [Idle EXCEPT !.pc = "begin", !.op = "student_meeting",
                                       !.id = 1, !.req = b]]
    /\ UNCHANGED <<counselor_meetings, nextMeetingId, lead_counselor_assignments,
                   student_counselors, leads, users, duration_default,
                   follow_ups, lead_changes>>
    /\ Acquire(2)

NextPair ==
    \/ \E b \in PairBodies : StartPair(b)
    \/ \E p \in {1, 2} : ScheduleStepNoFault(p)

SpecPair == InitConc /\ [][NextPair]_vars

(***************************************************************************)
(* C22.  Lead and student schedulers are the same algorithm: for the same  *)
(* counselor, date, start time, duration and store, with equal assignment  *)
(* and subject facts, both endpoints take the same decision and return the *)
(* same status.  Read in the states where both requests of a pair have     *)
(* decided and neither has committed, so that both saw the same store.     *)
(* Checked under SpecPair.                                                 *)
(***************************************************************************)
Decided(c) ==
    c.pc = "insert" \/ (c.pc = "done" /\ c.res.status # 201)

\* the status the request is bound for once its checks are over
Decision(c) ==
    IF c.pc = "insert" THEN 201 ELSE c.res.status

C22_SameAlgorithm ==
    (/\ conn[1].op = "lead_meeting" /\ conn[2].op = "student_meeting"
     /\ conn[1].req = conn[2].req
     /\ Decided(conn[1]) /\ Decided(conn[2]))
        => Decision(conn[1]) = Decision(conn[2])

(***************************************************************************)
(* The handlers that change a lead or a student: PUT /leads/:leadId, POST  *)
(* /leads/:leadId/follow-up, PUT /students/:studentId.  Strings are taken  *)
(* from a small vocabulary, on which trim(), toLowerCase(), length and the *)
(* two validators are tabulated.  A NULL comments column is the empty      *)
(* string (the handlers compare them as equal).                            *)
(***************************************************************************)
\* number of rows ever inserted into follow_ups (AUTO_INCREMENT ids)
MaxFollowUps == 3

Trim(s) ==
    CASE s = " Zoe " -> "Zoe"
      [] s = " ZOE@x.io " -> "ZOE@x.io"
      [] OTHER -> s

ToLowerCase(s) ==
    CASE s = "ZOE@x.io" -> "zoe@x.io"
      [] OTHER -> s

Length(s) ==
    CASE s = "" -> 0
      [] s = "Al" -> 2
      [] s \in {"Ann", "Zoe", "Cat"} -> 3
      [] s = "Short" -> 5
      [] s \in {"1 Main Street", "2 High Street"} -> 13

\* /^[^\s@]+@[^\s@]+\.[^\s@]+$/
validateEmail(email) ==
    email \in {"ann@x.io", "cat@x.io", "zoe@x.io"}

\* /^[\+]?[0-9\s\-()]+$/ and at least 10 digits
validatePhone(phone) ==
    phone \in {"03001234567", "03007654321"}

LeadBody(n, e, ph, a, i, c, st) ==
    [fullName |-> n, email |-> e, phone |-> ph, address |-> a, interest |-> i,
     comments |-> c, status |-> st]

\* !fullName || !email || !phone || !address || !interest
LeadFieldMissing(b) ==
    \/ FalsyString(b.fullName) \/ FalsyString(b.email) \/ FalsyString(b.phone)
    \/ FalsyString(b.address) \/ FalsyString(b.interest)

\* the values both handlers write: trimmed, the email in lower case
NewValues(b) ==
    [full_name |-> Trim(b.fullName), email |-> ToLowerCase(Trim(b.email)),
     phone |-> Trim(b.phone), address |-> Trim(b.address), interest |-> b.interest,
     comments |-> Trim(b.comments)]

\* SELECT id FROM leads WHERE email = ? AND id != ?
OtherLeadsWithEmail(e, leadId) ==
    {l \in DOMAIN leads : leads[l].email = e /\ l # leadId}

\* a PUT /leads/:leadId that also rewrites the name kept in the lead's meetings
UpdateLeadRenamesMeetings(p, leadId, b) ==
    /\ NoneInFlight
    /\ leadId \in DOMAIN leads
    /\ ~LeadFieldMissing(b)
    /\ leads' = [leads EXCEPT ![leadId].full_name = NewValues(b).full_name]
    /\ counselor_meetings' =
           {IF m.lead_id = leadId THEN [m EXCEPT !.student_name = NewValues(b).full_name]
            ELSE m : m \in counselor_meetings}
    /\ conn' = [conn EXCEPT ![p] =
                   Finished("update_lead", leadId, NoBody, Answer(200, "Lead updated successfully"))]
    /\ UNCHANGED <<nextMeetingId, lead_counselor_assignments, student_counselors,
                   users, duration_default, follow_ups, lead_changes, pool>>

\* PUT /leads/:leadId, from getConnection to its response
UpdateLead(p, leadId, b) ==
    /\ NoneInFlight
    /\ IF LeadFieldMissing(b)
       THEN /\ conn' = [conn EXCEPT ![p] =
                           Finished("update_lead", leadId, NoBody,
                                    Answer(400, "All required fields must be provided"))]
            /\ UNCHANGED leads
       ELSE IF ~validateEmail(NewValues(b).email)
       THEN /\ conn' = [conn EXCEPT ![p] =
                           Finished("update_lead", leadId, NoBody,
                                    Answer(400, "Please provide a valid email address"))]
            /\ UNCHANGED leads
       ELSE IF ~validatePhone(NewValues(b).phone)
       THEN /\ conn' = [conn EXCEPT ![p] =
                           Finished("update_lead", leadId, NoBody,
                                    Answer(400, "Please provide a valid phone number (minimum 10 digits)"))]
            /\ UNCHANGED leads
       ELSE IF leadId \notin DOMAIN leads
       THEN /\ conn' = [conn EXCEPT ![p] =
                           Finished("update_lead", leadId, NoBody, Answer(404, "Lead not found"))]
            /\ UNCHANGED leads
       ELSE IF OtherLeadsWithEmail(NewValues(b).email, leadId) # {}
       THEN /\ conn' = [conn EXCEPT ![p] =
                           Finished("update_lead", leadId, NoBody,
                                    Answer(409, "This email address is already associated with another lead"))]
            /\ UNCHANGED leads
       ELSE /\ leads' = [leads EXCEPT ![leadId] =
                            [@ EXCEPT !.full_name = NewValues(b).full_name,
                                      !.email = NewValues(b).email,
                                      !.phone = NewValues(b).phone,
                                      !.address = NewValues(b).address,
                                      !.interest = NewValues(b).interest,
                                      !.comments = NewValues(b).comments,
                                      !.status = IF FalsyString(b.status) THEN "New"
                                                 ELSE b.status]]
            /\ conn' = [conn EXCEPT ![p] =
                           Finished("update_lead", leadId, NoBody,
                                    Answer(200, "Lead updated successfully"))]
    /\ UNCHANGED <<counselor_meetings, nextMeetingId, lead_counselor_assignments,
                   student_counselors, users, duration_default, follow_ups,
                   lead_changes, pool>>

(***************************************************************************)
(* POST /leads/:leadId/follow-up, one awaited store call at a time.        *)
(***************************************************************************)
FollowUpStart(p, leadId, b, sequential) ==
    /\ ~InFlight(conn[p])
    /\ sequential => NoneInFlight
    /\ conn' = [conn EXCEPT ![p] =
                   [Idle EXCEPT !.pc = "begin", !.op = "follow_up",
                                !.id = leadId, !.body = <<b>>]]
    /\ UNCHANGED <<counselor_meetings, nextMeetingId, lead_counselor_assignments,
                   student_counselors, leads, users, duration_default,
                   follow_ups, lead_changes>>
    /\ Acquire(1)

\* beginTransaction, then the validations of the body
FollowUpBegin(p) ==
    /\ conn[p].pc = "begin" /\ conn[p].op = "follow_up"
    /\ LET b == conn[p].body[1]
       IN conn' = [conn EXCEPT ![p] =
              IF LeadFieldMissing(b)
              THEN Respond(Rollback(conn[p]), 400, "All required fields must be provided")
              ELSE IF ~validateEmail(NewValues(b).email)
              THEN Respond(Rollback(conn[p]), 400, "Please provide a valid email address")
              ELSE IF ~validatePhone(NewValues(b).phone)
              THEN Respond(Rollback(conn[p]), 400, "Please provide a valid phone number (minimum 10 digits)")
              ELSE IF Length(NewValues(b).full_name) < 3
              THEN Respond(Rollback(conn[p]), 400, "Full name must be at least 3 characters long")
              ELSE IF Length(NewValues(b).address) < 10
              THEN Respond(Rollback(conn[p]), 400, "Please provide a complete address (minimum 10 characters)")
              ELSE [conn[p] EXCEPT !.pc = "lead"]]
    /\ UNCHANGED <<counselor_meetings, nextMeetingId, lead_counselor_assignments,
                   student_counselors, leads, users, duration_default,
                   follow_ups, lead_changes>>
    /\ Release(p)

\* SELECT * FROM leads WHERE id = ?, then the email check when the email changes
FollowUpLead(p) ==
    /\ conn[p].pc = "lead" /\ conn[p].op = "follow_up"
    /\ LET nv == NewValues(conn[p].body[1])
       IN conn' = [conn EXCEPT ![p] =
              IF conn[p].id \notin DOMAIN leads
              THEN Respond(Rollback(conn[p]), 404, "Lead record not found")
              ELSE IF /\ nv.email # ToLowerCase(leads[conn[p].id].email)
                      /\ OtherLeadsWithEmail(nv.email, conn[p].id) # {}
              THEN Respond(Rollback(conn[p]), 409, "This email address is already associated with another record. Please use a different email.")
              ELSE [conn[p] EXCEPT !.pc = "count", !.old = <<leads[conn[p].id]>>]]
    /\ UNCHANGED <<counselor_meetings, nextMeetingId, lead_counselor_assignments,
                   student_counselors, leads, users, duration_default,
                   follow_ups, lead_changes>>
    /\ Release(p)

\* SELECT COUNT(*) FROM follow_ups WHERE lead_id = ?
FollowUpCountOf(leadId) ==
    Cardinality({i \in 1..Len(follow_ups.rows) : follow_ups.rows[i].lead_id = leadId})

\* const nextFollowUpNumber = followUpCount[0].count + 1
FollowUpCount(p) ==
    /\ conn[p].pc = "count" /\ conn[p].op = "follow_up"
    /\ conn' = [conn EXCEPT ![p].pc = "insert",
                            ![p].next_id = FollowUpCountOf(conn[p].id) + 1]
    /\ UNCHANGED <<counselor_meetings, nextMeetingId, lead_counselor_assignments,
                   student_counselors, leads, users, duration_default,
                   follow_ups, lead_changes>>
    /\ Release(p)

TrackedFields == {"full_name", "email", "phone", "address", "interest", "comments"}

\* the rows of lead_changes: one for each tracked field whose trimmed new
\* value differs from the trimmed old one
Changes(leadId, followUpId, old, nv) ==
    {[lead_id |-> leadId, follow_up_id |-> followUpId, field_name |-> f,
      old_value |-> old[f], new_value |-> nv[f]] :
        f \in {g \in TrackedFields : Trim(nv[g]) # Trim(old[g])}}

\* INSERT INTO follow_ups, INSERT INTO lead_changes, UPDATE leads: all three
\* buffered by the connection until COMMIT
FollowUpInsert(p) ==
    /\ conn[p].pc = "insert" /\ conn[p].op = "follow_up"
    /\ follow_ups.auto_increment <= MaxFollowUps
    /\ LET nv == NewValues(conn[p].body[1])
           fid == follow_ups.auto_increment
       IN conn' = [conn EXCEPT
              ![p].pc = "commit",
              ![p].follow_up = {[id |-> fid, lead_id |-> conn[p].id,
                                 follow_up_number |-> conn[p].next_id]},
              ![p].changes = Changes(conn[p].id, fid, conn[p].old[1], nv),
              ![p].lead_update = <<nv>>]
    /\ follow_ups' = [follow_ups EXCEPT !.auto_increment = @ + 1]
    /\ UNCHANGED <<counselor_meetings, nextMeetingId, lead_counselor_assignments,
                   student_counselors, leads, users, duration_default, lead_changes>>
    /\ Release(p)

\* the row of leads after UPDATE leads SET ..., is_follow_up = TRUE
FollowedUp(row, nv) ==
    [row EXCEPT !.full_name = nv.full_name, !.email = nv.email, !.phone = nv.phone,
                !.address = nv.address, !.interest = nv.interest,
                !.comments = nv.comments, !.is_follow_up = TRUE]

\* the set s as a sequence (s has at most one element)
SeqOf(s) == IF s = {} THEN <<>> ELSE <<CHOOSE x \in s : TRUE>>

\* connection.commit(), then res.json({..., followUpNumber})
FollowUpCommit(p) ==
    /\ conn[p].pc = "commit" /\ conn[p].op = "follow_up"
    /\ follow_ups' = [follow_ups EXCEPT !.rows = @ \o SeqOf(conn[p].follow_up)]
    /\ lead_changes' = lead_changes \cup conn[p].changes
    /\ leads' = IF conn[p].id \in DOMAIN leads
                THEN [leads EXCEPT ![conn[p].id] = FollowedUp(@, conn[p].lead_update[1])]
                ELSE leads
    /\ conn' = [conn EXCEPT ![p] =
                   [Respond(Commit(conn[p]), 200, "Follow-up recorded successfully!")
                        EXCEPT !.res.followUpNumber = conn[p].next_id]]
    /\ UNCHANGED <<counselor_meetings, nextMeetingId, lead_counselor_assignments,
                   student_counselors, users, duration_default>>
    /\ Release(p)

FollowUpSteps == {"begin", "lead", "count", "insert", "commit"}

\* a store call of the handler throws: catch rolls back and answers 500
FollowUpCatch(p) ==
    /\ conn[p].op = "follow_up" /\ conn[p].pc \in FollowUpSteps
    /\ conn' = [conn EXCEPT ![p] =
                   Respond(Rollback(conn[p]), 500, "An error occurred while submitting your follow-up. Please try again later.")]
    /\ UNCHANGED <<counselor_meetings, nextMeetingId, lead_counselor_assignments,
                   student_counselors, leads, users, duration_default,
                   follow_ups, lead_changes>>
    /\ Release(p)

FollowUpStep(p) ==
    \/ FollowUpBegin(p) \/ FollowUpLead(p) \/ FollowUpCount(p)
    \/ FollowUpInsert(p) \/ FollowUpCommit(p)

(***************************************************************************)
(* PUT /students/:studentId                                                *)
(***************************************************************************)
StudentBody(f, mid, sur, e, mob, a, co, dob) ==
    [firstName |-> f, middleName |-> mid, surname |-> sur, email |-> e,
     mobile |-> mob, address |-> a, country |-> co, dob |-> dob]

\* `${firstName.trim()} ${middleName ? middleName.trim() + ' ' : ''}${surname.trim()}`
FullName(b) ==
    CASE b.firstName = "Bo" /\ b.middleName = "" /\ b.surname = "Lee" -> "Bo Lee"
      [] b.firstName = "Bo" /\ b.middleName = "J" /\ b.surname = "Lee" -> "Bo J Lee"

StudentFieldMissing(b) ==
    \/ FalsyString(b.firstName) \/ FalsyString(b.surname) \/ FalsyString(b.email)
    \/ FalsyString(b.mobile) \/ FalsyString(b.address) \/ FalsyString(b.country)
    \/ FalsyString(b.dob)

\* the users row after UPDATE users SET name = ?, ..., email = ?, ...
UpdateStudent(p, studentId, b) ==
    /\ NoneInFlight
    /\ IF StudentFieldMissing(b)
       THEN /\ conn' = [conn EXCEPT ![p] =
                           Finished("update_student", studentId, NoBody,
                                    Answer(400, "All required fields must be provided"))]
            /\ UNCHANGED users
       ELSE IF ClientUsers(studentId) = {}
       THEN /\ conn' = [conn EXCEPT ![p] =
                           Finished("update_student", studentId, NoBody,
                                    Answer(404, "Student not found"))]
            /\ UNCHANGED users
       ELSE IF \E u \in users : u.email = ToLowerCase(Trim(b.email)) /\ u.id # studentId
       THEN /\ conn' = [conn EXCEPT ![p] =
                           Finished("update_student", studentId, NoBody,
                                    Answer(409, "This email address is already associated with another user"))]
            /\ UNCHANGED users
       ELSE /\ users' = {IF u.id = studentId
                         THEN [u EXCEPT !.name = FullName(b),
                                        !.email = ToLowerCase(Trim(b.email))]
                         ELSE u : u \in users}
            /\ conn' = [conn EXCEPT ![p] =
                           Finished("update_student", studentId, NoBody,
                                    Answer(200, "Student updated successfully"))]
    /\ UNCHANGED <<counselor_meetings, nextMeetingId, lead_counselor_assignments,
                   student_counselors, leads, duration_default, follow_ups,
                   lead_changes, pool>>

(***************************************************************************)
(* SpecProfile: scheduling for lead 1 and student 1 next to the handlers   *)
(* that change a lead or a student, one request at a time.  Lead 2 exists  *)
(* and holds the email cat@x.io; lead 3 does not exist.                    *)
(***************************************************************************)
Phone == "03001234567"
Street == "1 Main Street"

StudentBodies ==
    { StudentBody("Bo", "", "Lee", "bob@x.io", Phone, Street, "PK", "2000-01-01"),
      StudentBody("Bo", "J", "Lee", "eve@x.io", Phone, Street, "PK", "2000-01-01"),
      StudentBody("", "", "Lee", "bob@x.io", Phone, Street, "PK", "2000-01-01") }

InitProfile ==
    /\ follow_ups = [rows |-> <<>>, auto_increment |-> 1]
    /\ lead_changes = {}
    /\ pool = connectionLimit
    /\ counselor_meetings = {}
    /\ nextMeetingId = 1
    /\ lead_counselor_assignments = {<<1, 1>>}
    /\ student_counselors = {<<1, 1>>, <<2, 1>>}
    /\ leads = [i \in {1, 2} |->
                   [full_name |-> IF i = 1 THEN "Ann" ELSE "Cat",
                    email |-> IF i = 1 THEN "ann@x.io" ELSE "cat@x.io",
                    phone |-> Phone, address |-> Street, interest |-> "IT",
                    comments |-> "", is_registered |-> FALSE,
                    is_follow_up |-> FALSE, status |-> "New"]]
    /\ users = { [id |-> 1, name |-> "Bob", email |-> "bob@x.io", role |-> "client",
                  student_id |-> <<"STU", 1>>],
                 [id |-> 2, name |-> "Eve", email |-> "eve@x.io", role |-> "admin",
                  student_id |-> <<>>] }
    /\ duration_default = NULL
    /\ conn = [p \in {1} |-> Idle]

ProfileLeadBodies ==
    { LeadBody(" Zoe ", " ZOE@x.io ", Phone, Street, "IT", "", "Contacted"),
      LeadBody("Ann", "ann@x.io", Phone, Street, "IT", "", ""),
      LeadBody("", "ann@x.io", Phone, Street, "IT", "", "") }

NextProfile ==
    \/ LeadStart(1, <<1, Body(1, D1, T0900, 30)>>, TRUE)
    \/ StudentStart(1, <<1, Body(1, D1, T0930, 30)>>, TRUE)
    \/ ScheduleStepNoFault(1)
    \/ \E l \in {1, 3}, b \in ProfileLeadBodies : UpdateLead(1, l, b)
    \/ \E b \in ProfileLeadBodies : FollowUpStart(1, 1, b, TRUE)
    \/ FollowUpStep(1)
    \/ \E u \in {1, 2}, b \in StudentBodies : UpdateStudent(1, u, b)
    \/ RegisterStudent(1, 1)

SpecProfile == InitProfile /\ [][NextProfile]_vars

(***************************************************************************)
(* C23.  Subject-name snapshot: a meeting is inserted with the name its    *)
(* subject has at that time, and no step of PUT /leads/:leadId, follow-up, *)
(* PUT /students/:studentId or register-student (nor any other step)       *)
(* changes the student_name of a meeting that exists.  Checked under       *)
(* SpecProfile.                                                            *)
(***************************************************************************)
C23_NameSnapshot ==
    [][\A n \in counselor_meetings' :
           IF \E m \in counselor_meetings : m.id = n.id
           THEN \A m \in counselor_meetings : m.id = n.id => n.student_name = m.student_name
           ELSE /\ n.lead_id # NULL => n.student_name = leads[n.lead_id].full_name
                /\ n.user_id # NULL =>
                       \E u \in users : u.id = n.user_id /\ u.name = n.student_name]_vars

\* a meeting of lead 1 still named Ann after the lead was renamed, next to a
\* meeting of student 1 still named Bob after the student was renamed
C23_Witness ==
    /\ \E m \in counselor_meetings :
           m.student_id = <<"LEAD-", 1>> /\ m.student_name = "Ann"
    /\ leads[1].full_name = "Zoe"
    /\ \E m \in counselor_meetings : m.user_id = 1 /\ m.student_name = "Bob"
    /\ \E u \in users : u.id = 1 /\ u.name = "Bo Lee"

(***************************************************************************)
(* POST /leads/:leadId/register-student, one awaited store call at a time, *)
(* for requests that run side by side.  (RegisterStudent above is the same *)
(* handler taken as one step.)                                             *)
(***************************************************************************)
RegisterStart(p, leadId) ==
    /\ ~InFlight(conn[p])
    /\ conn' = [conn EXCEPT ![p] =
                   [Idle EXCEPT !.pc = "begin", !.op = "register_student", !.id = leadId]]
    /\ UNCHANGED <<counselor_meetings, nextMeetingId, lead_counselor_assignments,
                   student_counselors, leads, users, duration_default,
                   follow_ups, lead_changes>>
    /\ Acquire(1)

\* beginTransaction, SELECT * FROM leads WHERE id = ?, the is_registered check
RegisterLead(p) ==
    /\ conn[p].pc = "begin" /\ conn[p].op = "register_student"
    /\ conn' = [conn EXCEPT ![p] =
                   IF conn[p].id \notin DOMAIN leads
                   THEN Respond(Rollback(conn[p]), 404, "Lead not found")
                   ELSE IF leads[conn[p].id].is_registered
                   THEN Respond(Rollback(conn[p]), 400, "This lead is already registered as a student")
                   ELSE [conn[p] EXCEPT !.pc = "user", !.old = <<leads[conn[p].id]>>]]
    /\ UNCHANGED <<counselor_meetings, nextMeetingId, lead_counselor_assignments,
                   student_counselors, leads, users, duration_default,
                   follow_ups, lead_changes>>
    /\ Release(p)

\* SELECT id FROM users WHERE email = ?
RegisterUserCheck(p) ==
    /\ conn[p].pc = "user" /\ conn[p].op = "register_student"
    /\ conn' = [conn EXCEPT ![p] =
                   IF \E u \in users : u.email = conn[p].old[1].email
                   THEN Respond(Rollback(conn[p]), 409, "A user with this email already exists in the system")
                   ELSE [conn[p] EXCEPT !.pc = "genid"]]
    /\ UNCHANGED <<counselor_meetings, nextMeetingId, lead_counselor_assignments,
                   student_counselors, leads, users, duration_default,
                   follow_ups, lead_changes>>
    /\ Release(p)

\* the numbers handed to requests that have not finished yet
NumbersInFlight ==
    {conn[q].next_id : q \in {r \in DOMAIN conn :
         conn[r].op = "register_student" /\ conn[r].pc \in {"insert", "commit"}}}

\* a generator that never hands out a number twice (a sequence)
generateStudentIdFromSequence(connection) ==
    Max({MaxStudentNumber} \cup NumbersInFlight) + 1

\* nextId = (result[0].max_id || 0) + 1, read through the given connection:
\* the maximum over the committed rows
generateStudentId(connection) ==
    MaxStudentNumber + 1

RegisterGenerateId(p) ==
    /\ conn[p].pc = "genid" /\ conn[p].op = "register_student"
    /\ conn' = [conn EXCEPT ![p].pc = "insert",
                            ![p].next_id = generateStudentId(conn[p])]
    /\ UNCHANGED <<counselor_meetings, nextMeetingId, lead_counselor_assignments,
                   student_counselors, leads, users, duration_default,
                   follow_ups, lead_changes>>
    /\ Release(p)

\* the largest users.id the model hands out
MaxUserId == 5

\* userResult.insertId: AUTO_INCREMENT passes every id given out so far
NextUserId ==
    Max({u.id : u \in users} \cup
        UNION {{u.id : u \in conn[q].pending} :
                  q \in {r \in DOMAIN conn : conn[r].op = "register_student"}}) + 1

\* INSERT INTO users (student_id, name, email, password, role), buffered
RegisterInsert(p) ==
    /\ conn[p].pc = "insert" /\ conn[p].op = "register_student"
    /\ NextUserId <= MaxUserId
    /\ conn' = [conn EXCEPT
                   ![p].pc = "commit",
                   ![p].pending = {[id |-> NextUserId, name |-> conn[p].old[1].full_name,
                                    email |-> conn[p].old[1].email, role |-> "client",
                                    student_id |-> <<"STU", conn[p].next_id>>]}]
    /\ UNCHANGED <<counselor_meetings, nextMeetingId, lead_counselor_assignments,
                   student_counselors, leads, users, duration_default,
                   follow_ups, lead_changes>>
    /\ Release(p)

\* the transfer of the assignments, the UPDATE of the meetings, the UPDATE of
\* the lead, then connection.commit() and the response
RegisterCommit(p) ==
    /\ conn[p].pc = "commit" /\ conn[p].op = "register_student"
    /\ LET userId == (CHOOSE u \in conn[p].pending : TRUE).id
           leadId == conn[p].id
       IN /\ users' = users \cup conn[p].pending
          /\ student_counselors' = student_counselors \cup
                 {<<userId, a[2]>> : a \in {x \in lead_counselor_assignments : x[1] = leadId}}
          /\ counselor_meetings' =
                 {IF m.lead_id = leadId
                  THEN [m EXCEPT !.user_id = userId, !.lead_id = NULL]
                  ELSE m : m \in counselor_meetings}
          /\ leads' = [leads EXCEPT ![leadId].is_registered = TRUE]
    /\ conn' = [conn EXCEPT ![p] =
                   Respond(Commit(conn[p]), 200, "Lead successfully registered as student")]
    /\ UNCHANGED <<nextMeetingId, lead_counselor_assignments, duration_default,
                   follow_ups, lead_changes>>
    /\ Release(p)

\* a store call throws (a duplicate key, a lost connection): rollback and 500
RegisterCatch(p) ==
    /\ conn[p].op = "register_student"
    /\ conn[p].pc \in {"begin", "user", "genid", "insert", "commit"}
    /\ conn' = [conn EXCEPT ![p] =
                   Respond(Rollback(conn[p]), 500, "An error occurred while registering the student")]
    /\ UNCHANGED <<counselor_meetings, nextMeetingId, lead_counselor_assignments,
                   student_counselors, leads, users, duration_default,
                   follow_ups, lead_changes>>
    /\ Release(p)

(***************************************************************************)
(* SpecRegister: connection 1 registers lead 1 while connection 2          *)
(* registers lead 2, their store calls interleaved in any order.           *)
(***************************************************************************)
InitRegister ==
    /\ follow_ups = [rows |-> <<>>, auto_increment |-> 1]
    /\ lead_changes = {}
    /\ pool = connectionLimit
    /\ \E t \in {T0900, T0930} :
           counselor_meetings = {Row(1, 1, 1, NULL, "Ann", <<"LEAD-", 1>>, D1, t, 30)}
    /\ nextMeetingId = 2
    /\ \E a \in SUBSET {<<1, 1>>, <<1, 2>>, <<2, 1>>} : lead_counselor_assignments = a
    /\ student_counselors = {<<1, 1>>, <<2, 1>>}
    /\ leads = [i \in {1, 2, 3} |->
                   [full_name |-> IF i = 1 THEN "Ann" ELSE IF i = 2 THEN "Cat" ELSE "Bob",
                    email |-> IF i = 1 THEN "ann@x.io"
                              ELSE IF i = 2 THEN "cat@x.io" ELSE "bob@x.io",
                    phone |-> Phone, address |-> Street, interest |-> "IT",
                    comments |-> "", is_registered |-> FALSE,
                    is_follow_up |-> FALSE, status |-> "New"]]
    /\ users = { [id |-> 1, name |-> "Bob", email |-> "bob@x.io", role |-> "client",
                  student_id |-> <<"STU", 1>>],
                 [id |-> 2, name |-> "Eve", email |-> "eve@x.io", role |-> "admin",
                  student_id |-> <<>>] }
    /\ duration_default = NULL
    /\ conn = [p \in {1, 2} |-> Idle]

NextRegister ==
    \E p \in {1, 2} :
        \/ RegisterStart(p, p)
        \/ RegisterLead(p) \/ RegisterUserCheck(p) \/ RegisterGenerateId(p)
        \/ RegisterInsert(p) \/ RegisterCommit(p) \/ RegisterCatch(p)

SpecRegister == InitRegister /\ [][NextRegister]_vars

(***************************************************************************)
(* C24.  ID generation race: two creation requests that both read the      *)
(* maximum before either commits its insert compute the same next ID.      *)
(* Whenever both requests hold a generated number and neither has          *)
(* committed, the two numbers are equal.  Checked under SpecRegister.      *)
(***************************************************************************)
HoldsNumber(c) ==
    c.op = "register_student" /\ c.pc \in {"insert", "commit"}

C24_SameNextId ==
    (HoldsNumber(conn[1]) /\ HoldsNumber(conn[2]))
        => conn[1].next_id = conn[2].next_id

\* both requests have inserted a user row with the same student_id
C24_Witness ==
    /\ conn[1].pc = "commit" /\ conn[2].pc = "commit"
    /\ \E u \in conn[1].pending, v \in conn[2].pending :
           u.student_id = v.student_id /\ u.id # v.id

(***************************************************************************)
(* C25.  A cancelled or deleted meeting frees its slot: a scheduling       *)
(* request is rejected with 409 only because of a meeting that is in the   *)
(* table and not Cancelled when the request is answered, and every slot    *)
(* that available-slots lists belongs to such a meeting.  Checked under    *)
(* Spec, where PUT /meetings/:meetingId/notes and DELETE                   *)
(* /counselors/:counselorId/meetings/:meetingId run between the requests.  *)
(***************************************************************************)
StandingMeetings(c, d) ==
    {m \in counselor_meetings :
        m.counselor_id = c /\ m.meeting_date = d /\ m.status # "Cancelled"}

C25_FreedSlot ==
    \A p \in DOMAIN conn :
        /\ (IsScheduling(conn[p]) /\ conn[p].pc = "done" /\ conn[p].res.status = 409)
               => \E m \in StandingMeetings(conn[p].req.counselorId, conn[p].req.meetingDate) :
                      /\ m.meeting_time = conn[p].res.m_time
                      /\ m.duration_minutes = conn[p].res.m_dur
        /\ (conn[p].op = "available_slots" /\ conn[p].res.status = 200)
               => \A i \in 1..Len(conn[p].res.slots) :
                      \E m \in StandingMeetings(conn[p].req.counselorId, conn[p].req.meetingDate) :
                          conn[p].res.slots[i] = [start |-> MStart(m), end |-> MEnd(m)]

\* a request accepted over the interval of a meeting that was cancelled
C25_Witness ==
    /\ IsScheduling(conn[1]) /\ conn[1].pc = "done" /\ conn[1].res.status = 201
    /\ \E m, n \in counselor_meetings :
           /\ m.status = "Cancelled" /\ n.status # "Cancelled"
           /\ SameCounselorAndDate(m, n)
           /\ n.meeting_time = conn[1].req.meetingTime
           /\ RowsIntersect(m, n)

(***************************************************************************)
(* C26.  Transaction and connection discipline of a scheduling request:    *)
(* when the handler answers (an early return, the 201 or the 500 of the    *)
(* catch block) the transaction has been ended exactly once by a rollback  *)
(* or a commit, by a commit exactly on the 201 path, whose row is then in  *)
(* the table; a request that got a connection releases it exactly once on  *)
(* every path, and the pool of 10 misses exactly the connections of the    *)
(* requests in flight.  Checked under SpecFault, which has every exit      *)
(* path: the early returns, the success path, a throwing store call, a     *)
(* throwing rollback in the catch block and a throwing getConnection.      *)
(***************************************************************************)
AnsweredByHandler(c) ==
    IsScheduling(c) /\ c.pc = "done" /\ c.res \notin UnhandledOutcomes

CarryBodies == {Body(c, D1, t, 30) : c \in {1, 2}, t \in {T0900, T0930}}

NextCarry ==
    \/ \E b \in CarryBodies : LeadStart(1, <<1, b>>, TRUE)
    \/ \E u \in {3, 4}, b \in CarryBodies : StudentStart(1, <<u, b>>, TRUE)
    \/ ScheduleStepNoFault(1)
    \/ \E l \in {1, 2, 3, 4} : RegisterStudent(1, l)

SpecCarry == InitRegister /\ [][NextCarry]_vars

(***************************************************************************)
(* C27.  Register-student carries the lead's scheduling state over: the    *)
(* step of a successful registration turns every meeting of the lead into  *)
(* a meeting of the new user with a NULL lead_id and changes nothing else  *)
(* in any meeting, and gives the new user exactly the lead's counselors;   *)
(* afterwards a scheduling request of that student is turned down as not   *)
(* assigned exactly for the counselors that were not the lead's.  Checked  *)
(* under SpecCarry.                                                        *)
(***************************************************************************)
CounselorsOfLead(l) == {a[2] : a \in {x \in lead_counselor_assignments : x[1] = l}}

\* student scheduling follows the carried assignments
CarriedAssignmentsDecide ==
    \A l \in DOMAIN leads, u \in users :
        (/\ u.email = leads[l].email
         /\ conn[1].op = "student_meeting" /\ conn[1].pc = "done" /\ conn[1].id = u.id)
            => (conn[1].res.message = "This counselor is not assigned to this student"
                    <=> conn[1].req.counselorId \notin CounselorsOfLead(l))

C27_RegisterCarriesOver ==
    [][/\ (conn'[1].op = "register_student" /\ conn'[1].res.status = 200 /\ users' # users)
           => \E new \in users' \ users :
                  /\ users' = users \cup {new}
                  /\ new.role = "client"
                  /\ counselor_meetings' =
                         {IF m.lead_id = conn'[1].id
                          THEN [m EXCEPT !.user_id = new.id, !.lead_id = NULL]
                          ELSE m : m \in counselor_meetings}
                  /\ \A m \in counselor_meetings' : m.lead_id # conn'[1].id
                  /\ {a \in student_counselors' : a[1] = new.id}
                         = {<<new.id, c>> : c \in CounselorsOfLead(conn'[1].id)}
                  /\ {a \in student_counselors' : a[1] # new.id} = student_counselors
       /\ CarriedAssignmentsDecide']_vars

\* the student made from lead 1 holds the lead's earlier meeting and has
\* booked one of its own with one of the lead's counselors
C27_Witness ==
    /\ conn[1].op = "student_meeting" /\ conn[1].id = 3 /\ conn[1].res.status = 201
    /\ conn[1].req.counselorId \in CounselorsOfLead(1)
    /\ \E m \in counselor_meetings :
           m.user_id = 3 /\ m.lead_id = NULL /\ m.student_id = <<"LEAD-", 1>>
    /\ \E u \in users : u.id = 3 /\ u.email = leads[1].email

(***************************************************************************)
(* C28.  A lead is registered at most once: of the register-student        *)
(* requests for one lead, run one after the other, at most one creates a   *)
(* user, and once one has, exactly one user made from the lead exists; a   *)
(* request for a lead that is registered fails with 400 (or 409), as does  *)
(* one for a lead whose email a user holds (409), and a failing request    *)
(* leaves users, assignments, meetings and leads as they were.  Checked    *)
(* under SpecCarry.                                                        *)
(***************************************************************************)
\* the users made by a registration of lead l (users 1 and 2 are there from
\* the start)
UsersMadeFrom(l) ==
    {u \in users : u.email = leads[l].email /\ u.id \notin {1, 2}}

C28_RegisteredOnce ==
    [][/\ conn'[1].op = "register_student" =>
              /\ conn'[1].res.status \in {200, 400, 404, 409}
              /\ conn'[1].res.status = 200 =>
                     /\ ~leads[conn'[1].id].is_registered
                     /\ Cardinality(users') = Cardinality(users) + 1
              /\ conn'[1].res.status # 200 =>
                     UNCHANGED <<users, lead_counselor_assignments, student_counselors,
                                 counselor_meetings, leads>>
              /\ (conn'[1].id \in DOMAIN leads /\ leads[conn'[1].id].is_registered)
                     => conn'[1].res.status \in {400, 409}
       /\ \A l \in DOMAIN leads :
              Cardinality(UsersMadeFrom(l)') = (IF leads'[l].is_registered THEN 1 ELSE 0)]_vars

\* a second request for lead 1, already registered, was answered 400
C28_Witness ==
    /\ conn[1].op = "register_student" /\ conn[1].id = 1 /\ conn[1].res.status = 400
    /\ leads[1].is_registered
    /\ Cardinality(UsersMadeFrom(1)) = 1

(***************************************************************************)
(* The assignment handlers, each from getConnection to its response.  The  *)
(* assignment tables are sets of (subject, counselor) pairs: a second row  *)
(* for a pair would come from an INSERT for a pair that has a row.         *)
(***************************************************************************)
AssignBody(c) == Body(c, "", <<>>, NULL)

\* an assign-counselor that does not look for an existing row
AssignLeadCounselorUnchecked(p, leadId, counselorId) ==
    /\ NoneInFlight
    /\ ~FalsyNumber(counselorId)
    /\ leadId \in DOMAIN leads /\ counselorId \in Counselors
    /\ lead_counselor_assignments' = lead_counselor_assignments \cup {<<leadId, counselorId>>}
    /\ conn' = [conn EXCEPT ![p] =
                   Finished("assign_lead", leadId, AssignBody(counselorId),
                            Answer(200, "Counselor assigned successfully"))]
    /\ UNCHANGED <<counselor_meetings, nextMeetingId, student_counselors, leads, users,
                   duration_default, follow_ups, lead_changes, pool>>

\* POST /leads/:leadId/assign-counselor
AssignLeadCounselor(p, leadId, counselorId) ==
    /\ NoneInFlight
    /\ IF FalsyNumber(counselorId)
       THEN /\ conn' = [conn EXCEPT ![p] =
                           Finished("assign_lead", leadId, AssignBody(counselorId),
                                    Answer(400, "Counselor ID is required"))]
            /\ UNCHANGED lead_counselor_assignments
       ELSE IF leadId \notin DOMAIN leads
       THEN /\ conn' = [conn EXCEPT ![p] =
                           Finished("assign_lead", leadId, AssignBody(counselorId),
                                    Answer(404, "Lead not found"))]
            /\ UNCHANGED lead_counselor_assignments
       ELSE IF counselorId \notin Counselors
       THEN /\ conn' = [conn EXCEPT ![p] =
                           Finished("assign_lead", leadId, AssignBody(counselorId),
                                    Answer(404, "Counselor not found"))]
            /\ UNCHANGED lead_counselor_assignments
       ELSE IF <<leadId, counselorId>> \in lead_counselor_assignments
       THEN /\ conn' = [conn EXCEPT ![p] =
                           Finished("assign_lead", leadId, AssignBody(counselorId),
                                    Answer(409, "This counselor is already assigned to this lead"))]
            /\ UNCHANGED lead_counselor_assignments
       ELSE /\ lead_counselor_assignments' =
                   lead_counselor_assignments \cup {<<leadId, counselorId>>}
            /\ conn' = [conn EXCEPT ![p] =
                           Finished("assign_lead", leadId, AssignBody(counselorId),
                                    Answer(200, "Counselor assigned successfully"))]
    /\ UNCHANGED <<counselor_meetings, nextMeetingId, student_counselors, leads, users,
                   duration_default, follow_ups, lead_changes, pool>>

\* DELETE /leads/:leadId/counselors/:counselorId
RemoveLeadCounselor(p, leadId, counselorId) ==
    /\ NoneInFlight
    /\ IF <<leadId, counselorId>> \notin lead_counselor_assignments
       THEN /\ conn' = [conn EXCEPT ![p] =
                           Finished("remove_lead", leadId, AssignBody(counselorId),
                                    Answer(404, "Assignment not found"))]
            /\ UNCHANGED lead_counselor_assignments
       ELSE /\ lead_counselor_assignments' =
                   lead_counselor_assignments \ {<<leadId, counselorId>>}
            /\ conn' = [conn EXCEPT ![p] =
                           Finished("remove_lead", leadId, AssignBody(counselorId),
                                    Answer(200, "Counselor removed successfully"))]
    /\ UNCHANGED <<counselor_meetings, nextMeetingId, student_counselors, leads, users,
                   duration_default, follow_ups, lead_changes, pool>>

\* POST /students/:studentId/assign-counselor: neither the student nor the
\* counselor is looked up; for a missing one the INSERT goes through or, if
\* the table has a foreign key (its schema is not in the source), throws
AssignStudentCounselor(p, studentId, counselorId) ==
    /\ NoneInFlight
    /\ IF FalsyNumber(counselorId)
       THEN /\ conn' = [conn EXCEPT ![p] =
                           Finished("assign_student", studentId, AssignBody(counselorId),
                                    Answer(400, "Counselor ID is required"))]
            /\ UNCHANGED student_counselors
       ELSE IF <<studentId, counselorId>> \in student_counselors
       THEN /\ conn' = [conn EXCEPT ![p] =
                           Finished("assign_student", studentId, AssignBody(counselorId),
                                    Answer(409, "This counselor is already assigned to this student"))]
            /\ UNCHANGED student_counselors
       ELSE \/ /\ student_counselors' = student_counselors \cup {<<studentId, counselorId>>}
               /\ conn' = [conn EXCEPT ![p] =
                              Finished("assign_student", studentId, AssignBody(counselorId),
                                       Answer(200, "Counselor assigned successfully"))]
            \/ /\ counselorId \notin Counselors \/ \A u \in users : u.id # studentId
               /\ conn' = [conn EXCEPT ![p] =
                              Finished("assign_student", studentId, AssignBody(counselorId),
                                       Answer(500, "An error occurred while assigning counselor"))]
               /\ UNCHANGED student_counselors
    /\ UNCHANGED <<counselor_meetings, nextMeetingId, lead_counselor_assignments, leads,
                   users, duration_default, follow_ups, lead_changes, pool>>

\* DELETE /students/:studentId/counselors/:counselorId
RemoveStudentCounselor(p, studentId, counselorId) ==
    /\ NoneInFlight
    /\ IF <<studentId, counselorId>> \notin student_counselors
       THEN /\ conn' = [conn EXCEPT ![p] =
                           Finished("remove_student", studentId, AssignBody(counselorId),
                                    Answer(404, "Assignment not found"))]
            /\ UNCHANGED student_counselors
       ELSE /\ student_counselors' = student_counselors \ {<<studentId, counselorId>>}
            /\ conn' = [conn EXCEPT ![p] =
                           Finished("remove_student", studentId, AssignBody(counselorId),
                                    Answer(200, "Counselor removed successfully"))]
    /\ UNCHANGED <<counselor_meetings, nextMeetingId, lead_counselor_assignments, leads,
                   users, duration_default, follow_ups, lead_changes, pool>>

(***************************************************************************)
(* SpecAssign: assign and remove requests on leads 1 (there) and 2         *)
(* (missing), on users 1 and 3 (missing), for counselors 1 and 2 (there),  *)
(* 3 (missing) and for no counselor, one request at a time.                *)
(***************************************************************************)
NextAssign ==
    \/ \E l \in {1, 2}, c \in {NULL, 1, 2, 3} : AssignLeadCounselor(1, l, c)
    \/ \E l \in {1, 2}, c \in {1, 2, 3} : RemoveLeadCounselor(1, l, c)
    \/ \E u \in {1, 3}, c \in {NULL, 1, 2, 3} : AssignStudentCounselor(1, u, c)
    \/ \E u \in {1, 3}, c \in {1, 2, 3} : RemoveStudentCounselor(1, u, c)

SpecAssign == InitSched /\ [][NextAssign]_vars

(***************************************************************************)
(* C29.  Assignment uniqueness: an assign request answers 409 for a pair   *)
(* that has a row and inserts a row only for a pair that has none, so no   *)
(* pair ever gets a second row; a remove request answers 404 for a pair    *)
(* without a row and otherwise removes the pair's row; the 409 and the 404 *)
(* leave both tables unchanged.  Checked under SpecAssign.                 *)
(***************************************************************************)
C29_AssignmentUniqueness ==
    [][LET c == conn'[1]
           pair == <<c.id, c.req.counselorId>>
       IN /\ c.op = "assign_lead" =>
                 /\ pair \in lead_counselor_assignments => c.res.status = 409
                 /\ c.res.status = 200 =>
                        /\ pair \notin lead_counselor_assignments
                        /\ lead_counselor_assignments' = lead_counselor_assignments \cup {pair}
                 /\ c.res.status # 200 => UNCHANGED lead_counselor_assignments
                 /\ UNCHANGED student_counselors
          /\ c.op = "assign_student" =>
                 /\ pair \in student_counselors => c.res.status = 409
                 /\ c.res.status = 200 =>
                        /\ pair \notin student_counselors
                        /\ student_counselors' = student_counselors \cup {pair}
                 /\ c.res.status # 200 => UNCHANGED student_counselors
                 /\ UNCHANGED lead_counselor_assignments
          /\ c.op = "remove_lead" =>
                 /\ pair \notin lead_counselor_assignments => c.res.status = 404
                 /\ c.res.status = 200 =>
                        /\ pair \in lead_counselor_assignments
                        /\ lead_counselor_assignments' = lead_counselor_assignments \ {pair}
                 /\ c.res.status # 200 => UNCHANGED lead_counselor_assignments
                 /\ UNCHANGED student_counselors
          /\ c.op = "remove_student" =>
                 /\ pair \notin student_counselors => c.res.status = 404
                 /\ c.res.status = 200 =>
                        /\ pair \in student_counselors
                        /\ student_counselors' = student_counselors \ {pair}
                 /\ c.res.status # 200 => UNCHANGED student_counselors
                 /\ UNCHANGED lead_counselor_assignments]_vars

\* lead 1 was given counselor 2 and a later assign of the same pair got 409
C29_Witness ==
    /\ conn[1].op = "assign_lead" /\ conn[1].id = 1 /\ conn[1].req.counselorId = 2
    /\ conn[1].res.status = 409
    /\ <<1, 2>> \in lead_counselor_assignments
    /\ <<1, 2>> \notin student_counselors

(***************************************************************************)
(* SpecFollow: follow-up requests for lead 1 (and the missing lead 4) on   *)
(* two connections, their store calls interleaved in any order; any store  *)
(* call may throw.                                                         *)
(***************************************************************************)
FollowBodies ==
    { LeadBody("Ann", "ann@x.io", Phone, Street, "IT", "", ""),
      LeadBody(" Zoe ", " ZOE@x.io ", Phone, Street, "IT", "", ""),
      LeadBody("Ann", "cat@x.io", Phone, Street, "IT", "", ""),
      LeadBody("Al", "ann@x.io", Phone, Street, "IT", "", "") }

InitFollow ==
    /\ InitRegister
    /\ lead_counselor_assignments = {}
    /\ \A m \in counselor_meetings : m.meeting_time = T0900

NextFollow ==
    \E p \in {1, 2} :
        \/ \E b \in FollowBodies : FollowUpStart(p, 1, b, FALSE)
        \/ FollowUpStart(p, 4, LeadBody("Ann", "ann@x.io", Phone, Street, "IT", "", ""), FALSE)
        \/ FollowUpStep(p)
        \/ FollowUpCatch(p)

SpecFollow == InitFollow /\ [][NextFollow]_vars

(***************************************************************************)
(* C30.  Follow-up numbering: the follow-up records of a lead carry the    *)
(* numbers 1..n in creation order, each once, a successful request         *)
(* returns the number of its own record, and the step that ends a request  *)
(* with 400, 404, 409 or 500 leaves the follow-up records, the change      *)
(* records and the lead as they were.  Checked under SpecFollow.           *)
(***************************************************************************)
\* the follow-up numbers of lead l in creation order
RECURSIVE NumbersOfFrom(_, _)
NumbersOfFrom(l, i) ==
    IF i > Len(follow_ups.rows) THEN <<>>
    ELSE IF follow_ups.rows[i].lead_id = l
         THEN <<follow_ups.rows[i].follow_up_number>> \o NumbersOfFrom(l, i + 1)
         ELSE NumbersOfFrom(l, i + 1)

NumbersOf(l) == NumbersOfFrom(l, 1)

NumberedInOrder ==
    \A l \in DOMAIN leads : \A k \in 1..Len(NumbersOf(l)) : NumbersOf(l)[k] = k

C30_FollowUpNumbering ==
    [][/\ NumberedInOrder'
       /\ \A p \in DOMAIN conn :
              (conn'[p].op = "follow_up" /\ conn'[p].pc = "done" /\ conn[p].pc # "done") =>
                  IF conn'[p].res.status = 200
                  THEN \A l \in {conn[p].id} :
                           /\ Len(NumbersOf(l)') = Len(NumbersOf(l)) + 1
                           /\ conn'[p].res.followUpNumber = Len(NumbersOf(l)')
                  ELSE /\ conn'[p].res.status \in {400, 404, 409, 500}
                       /\ follow_ups'.rows = follow_ups.rows
                       /\ UNCHANGED <<lead_changes, leads>>]_vars

====
